---- MODULE Spec2Model ----
(***************************************************************************)
(* A model of memorit: the badger-backed chat and concept stores with      *)
(* their secondary indices, the checkpoint store, the two enrichment       *)
(* processors and the ingestion pipeline with its worker pools and its     *)
(* startup recovery.                                                       *)
(*                                                                         *)
(* Every badger transaction is one atomic step: badger gives each          *)
(* read-write transaction serializable snapshot isolation and a            *)
(* transaction reads its own pending writes, so the loop a repository      *)
(* method runs inside one transaction is a fold over the batch.            *)
(***************************************************************************)
EXTENDS Integers, Naturals, Sequences, FiniteSets, TLC

VARIABLES
    chat,        \* chat namespace of the database: primary records, date index, concept index
    chatSeq,     \* next value of the "charecseq" badger sequence
    concepts,    \* concept namespace of the database: primary records, tuple index
    checkpoints, \* checkpoint namespace: processor type -> persisted last id
    lastOp,      \* the repository call that ran last and what it did (history)
    phase,       \* where the pipeline's owner is: down, recovering, recovered, up, released
    recov,       \* locals of Pipeline.recover: the ids left for each processor
    poolSize,    \* capacity of each of the two ants pools
    poolClosed,  \* processor type -> whether its pool has been released
    tasks,       \* <<call, processor type>> -> the enrichment task a pool worker is running
    calls,       \* call -> the Ingest call: its position, its ids, what Submit returned
    lastID,      \* processor type -> the processor's in-memory lastID field
    starts,      \* how many times NewPipeline has been called
    startupMax,  \* largest chat-record id that existed when NewPipeline was called (history)
    failed,      \* processor type -> ids whose enrichment failed in a worker task and
                 \* that the processor has not processed since (history)
    embOK,       \* ids for which the embedding processor's process succeeded (history)
    conOK,       \* id -> the concepts the concept processor last committed for it (history)
    seqStored,   \* the value stored under the id sequence's key, 0 while the key is absent
    seqLeased,   \* badger.Sequence.leased of the open chat repository
    issued,      \* the ids idSeq.Next has handed to AddChatRecords, in order of issue (history)
    backend      \* the Backend handle: its context, its compaction worker, its Close calls

storeVars == <<chat, chatSeq, concepts, checkpoints, lastOp>>
pipeVars == <<phase, recov, poolSize, poolClosed, tasks, calls, lastID, starts,
              startupMax, failed, embOK, conOK>>
pipeVarsButCalls == <<phase, recov, poolSize, poolClosed, tasks, lastID, starts,
                      startupMax, failed, embOK, conOK>>
\* What an open database handle owns: the id sequence and the Backend.
seqVars == <<seqStored, seqLeased, issued, backend>>
vars == <<chat, chatSeq, concepts, checkpoints, lastOp, phase, recov, poolSize,
          poolClosed, tasks, calls, lastID, starts, startupMax, failed, embOK, conOK,
          seqStored, seqLeased, issued, backend>>

----------------------------------------------------------------------------
(* Bounds of the model. *)

\* Largest chat-record id the sequence may issue to the repository calls of
\* SpecStore.
MaxRecords == 2

----------------------------------------------------------------------------
(* Maps: a badger namespace is a function from the keys present to values. *)

EmptyMap == <<>>

KvSet(m, k, v) == [x \in (DOMAIN m) \cup {k} |-> IF x = k THEN v ELSE m[x]]

KvDelete(m, k) == [x \in (DOMAIN m) \ {k} |-> m[x]]

Max(S) == IF S = {} THEN 0 ELSE CHOOSE x \in S : \A y \in S : y <= x

Range(s) == {s[i] : i \in DOMAIN s}

----------------------------------------------------------------------------
(* Time.  A timestamp is a count of nanoseconds; the date index and the    *)
(* codec keep microseconds.                                                *)

NanosPerMicro == 1000

\* time.Time.UnixMicro
UnixMicro(t) == t \div NanosPerMicro

\* The codec writes a time as microseconds since the epoch and reads it back.
MarshalTime(t) == UnixMicro(t)
UnmarshalTime(m) == m * NanosPerMicro

\* time.Time.Equal
TimeEqual(a, b) == a = b

----------------------------------------------------------------------------
(* Chat records.                                                           *)

NoVector == <<>>

ChatRecord(id, ts, cs, vec) ==
    [Id |-> id, Timestamp |-> ts, Concepts |-> cs, Vector |-> vec]

ConceptRef(cid, imp) == [ConceptId |-> cid, Importance |-> imp]

\* UnmarshalChatRecord(MarshalChatRecord(r)): what a later read of r returns.
StoredChatRecord(r) == [r EXCEPT !.Timestamp = UnmarshalTime(MarshalTime(@))]

EmptyChat == [rec |-> EmptyMap, date |-> EmptyMap, cidx |-> EmptyMap]

(* Key schema. *)
makeChatRecordKey(id) == id

makeChatDateKey(timestamp, id) == <<UnixMicro(timestamp), id>>

makeChatConceptKey(conceptID, recordID) == <<conceptID, recordID>>

makePartialChatConceptKey(conceptID) == conceptID

\* readChatRecord: the record under key, or "nil" when the key is absent.
HasChatRecord(db, key) == key \in DOMAIN db.rec
readChatRecord(db, key) == db.rec[key]

RECURSIVE updateConceptIndex(_, _, _)
updateConceptIndex(db, refs, recordID) ==
    IF refs = <<>> THEN db
    ELSE updateConceptIndex(
            [db EXCEPT !.cidx = KvSet(@, makeChatConceptKey(Head(refs).ConceptId, recordID), recordID)],
            Tail(refs), recordID)

RECURSIVE deleteConceptIndex(_, _, _)
deleteConceptIndex(db, refs, recordID) ==
    IF refs = <<>> THEN db
    ELSE deleteConceptIndex(
            [db EXCEPT !.cidx = KvDelete(@, makeChatConceptKey(Head(refs).ConceptId, recordID))],
            Tail(refs), recordID)

conceptsEqual(a, b) ==
    /\ Len(a) = Len(b)
    /\ \A i \in 1..Len(a) :
          a[i].ConceptId = b[i].ConceptId /\ a[i].Importance = b[i].Importance

\* badger.Sequence.Next as AddChatRecords uses it: a fresh sequence yields 0
\* first, which is skipped.
SeqNextID(seq) == IF seq = 0 THEN 1 ELSE seq

\* The loop of AddChatRecords inside its transaction.
RECURSIVE AddLoop(_, _, _, _)
AddLoop(db, seq, records, added) ==
    IF records = <<>> THEN [chat |-> db, seq |-> seq, added |-> added]
    ELSE LET nextID == SeqNextID(seq)
             record == [Head(records) EXCEPT !.Id = nextID]
             d1 == [db EXCEPT !.rec = KvSet(@, makeChatRecordKey(record.Id), StoredChatRecord(record))]
             d2 == [d1 EXCEPT !.date = KvSet(@, makeChatDateKey(record.Timestamp, record.Id), record.Id)]
             d3 == updateConceptIndex(d2, record.Concepts, record.Id)
         IN  AddLoop(d3, nextID + 1, Tail(records), Append(added, record))

AddChatRecords(db, seq, records) == AddLoop(db, seq, records, <<>>)

\* Faulty variant: the date index gains the new key and keeps the old one.
UpdateDateIndexKeepOld(db, old, record) ==
    IF ~TimeEqual(old.Timestamp, record.Timestamp)
    THEN [db EXCEPT !.date =
            KvSet(@, makeChatDateKey(record.Timestamp, record.Id), record.Id)]
    ELSE db

\* The date-index part of UpdateChatRecords.
UpdateDateIndex(db, old, record) ==
    IF ~TimeEqual(old.Timestamp, record.Timestamp)
    THEN [db EXCEPT !.date =
            KvSet(KvDelete(@, makeChatDateKey(old.Timestamp, old.Id)),
                  makeChatDateKey(record.Timestamp, record.Id), record.Id)]
    ELSE db

\* Faulty variant: the concept index gains the new entries and keeps the old ones.
UpdateConceptIndexKeepOld(db, old, record) ==
    IF ~conceptsEqual(old.Concepts, record.Concepts)
    THEN updateConceptIndex(db, record.Concepts, record.Id)
    ELSE db

\* The concept-index part of UpdateChatRecords.
UpdateConceptIndexIfChanged(db, old, record) ==
    IF ~conceptsEqual(old.Concepts, record.Concepts)
    THEN updateConceptIndex(deleteConceptIndex(db, old.Concepts, old.Id),
                            record.Concepts, record.Id)
    ELSE db

\* The loop of UpdateChatRecords inside its transaction.
RECURSIVE UpdateLoop(_, _)
UpdateLoop(db, records) ==
    IF records = <<>> THEN [ok |-> TRUE, chat |-> db]
    ELSE LET record == Head(records)
             key == makeChatRecordKey(record.Id)
         IN  IF ~HasChatRecord(db, key) THEN [ok |-> FALSE, chat |-> db]
             ELSE LET old == readChatRecord(db, key)
                      d1 == [db EXCEPT !.rec = KvSet(@, key, StoredChatRecord(record))]
                      d2 == UpdateDateIndex(d1, old, record)
                      d3 == UpdateConceptIndexIfChanged(d2, old, record)
                  IN  UpdateLoop(d3, Tail(records))

\* UpdateChatRecords whose writes before the ErrNotFound stay.
UpdateChatRecordsKeepWritten(db, records) == UpdateLoop(db, records)

\* UpdateChatRecords: commit, or discard on ErrNotFound.
UpdateChatRecords(db, records) ==
    LET r == UpdateLoop(db, records)
    IN  IF r.ok THEN r ELSE [ok |-> FALSE, chat |-> db]

\* The loop of DeleteChatRecords inside its transaction.
RECURSIVE DeleteLoop(_, _)
DeleteLoop(db, ids) ==
    IF ids = <<>> THEN [ok |-> TRUE, chat |-> db]
    ELSE LET key == makeChatRecordKey(Head(ids))
         IN  IF ~HasChatRecord(db, key) THEN [ok |-> FALSE, chat |-> db]
             ELSE LET record == readChatRecord(db, key)
                      d1 == [db EXCEPT !.date = KvDelete(@, makeChatDateKey(record.Timestamp, record.Id))]
                      d2 == deleteConceptIndex(d1, record.Concepts, record.Id)
                      d3 == [d2 EXCEPT !.rec = KvDelete(@, key)]
                  IN  DeleteLoop(d3, Tail(ids))

DeleteChatRecords(db, ids) ==
    LET r == DeleteLoop(db, ids)
    IN  IF r.ok THEN r ELSE [ok |-> FALSE, chat |-> db]

\* GetChatRecords: the records present, in the order of ids.
RECURSIVE GetChatRecords(_, _)
GetChatRecords(db, ids) ==
    IF ids = <<>> THEN <<>>
    ELSE IF HasChatRecord(db, makeChatRecordKey(Head(ids)))
         THEN <<readChatRecord(db, makeChatRecordKey(Head(ids)))>> \o GetChatRecords(db, Tail(ids))
         ELSE GetChatRecords(db, Tail(ids))

\* GetChatRecordsByConcept: the values under the keys with the concept's prefix.
GetChatRecordsByConcept(db, conceptID) ==
    {db.cidx[k] : k \in {x \in DOMAIN db.cidx : x[1] = makePartialChatConceptKey(conceptID)}}

----------------------------------------------------------------------------
(* Concepts.                                                               *)

Concept(id, name, type) == [Id |-> id, Name |-> name, Type |-> type]

\* Concept.Tuple
Tuple(c) == "(" \o c.Type \o "," \o c.Name \o ")"

\* The (name, type) pairs concepts are drawn from.
NameTypePairs == {<<"ab", "t">>, <<"b", "ta">>, <<"b", "t">>}

\* IDFromContent is BLAKE2b-64 of the text; over the tuples of the model it
\* is the position of the text in this table, so it is injective and never 0.
ContentTable == <<"(t,ab)", "(ta,b)", "(t,b)">>

IDFromContent(text) == CHOOSE i \in 1..Len(ContentTable) : ContentTable[i] = text

EmptyConcepts == [rec |-> EmptyMap, tidx |-> EmptyMap]

makeConceptKey(id) == id

\* "contyna:" followed by the type and then the name, nothing between them.
makeConceptTupleKey(name, conceptType) == conceptType \o name

HasConcept(db, key) == key \in DOMAIN db.rec
readConcept(db, key) == db.rec[key]

\* The loop of AddConcepts inside its transaction.
RECURSIVE AddConceptsLoop(_, _, _)
AddConceptsLoop(db, cs, added) ==
    IF cs = <<>> THEN [concepts |-> db, added |-> added]
    ELSE LET c0 == Head(cs)
             concept == IF c0.Id = 0 THEN [c0 EXCEPT !.Id = IDFromContent(Tuple(c0))] ELSE c0
             d1 == [db EXCEPT !.rec = KvSet(@, makeConceptKey(concept.Id), concept)]
             d2 == [d1 EXCEPT !.tidx = KvSet(@, makeConceptTupleKey(concept.Name, concept.Type), concept.Id)]
         IN  AddConceptsLoop(d2, Tail(cs), Append(added, concept))

AddConcepts(db, cs) == AddConceptsLoop(db, cs, <<>>)

\* The tuple-index part of UpdateConcepts.
MoveTupleKey(db, old, concept) ==
    IF old.Name # concept.Name \/ old.Type # concept.Type
    THEN [db EXCEPT !.tidx =
            KvSet(KvDelete(@, makeConceptTupleKey(old.Name, old.Type)),
                  makeConceptTupleKey(concept.Name, concept.Type), concept.Id)]
    ELSE db

\* The loop of UpdateConcepts inside its transaction.
RECURSIVE UpdateConceptsLoop(_, _)
UpdateConceptsLoop(db, cs) ==
    IF cs = <<>> THEN [ok |-> TRUE, concepts |-> db]
    ELSE LET concept == Head(cs)
             key == makeConceptKey(concept.Id)
         IN  IF ~HasConcept(db, key) THEN [ok |-> FALSE, concepts |-> db]
             ELSE LET old == readConcept(db, key)
                      d1 == [db EXCEPT !.rec = KvSet(@, key, concept)]
                      d2 == MoveTupleKey(d1, old, concept)
                  IN  UpdateConceptsLoop(d2, Tail(cs))

UpdateConcepts(db, cs) ==
    LET r == UpdateConceptsLoop(db, cs)
    IN  IF r.ok THEN r ELSE [ok |-> FALSE, concepts |-> db]

\* The loop of DeleteConcepts inside its transaction.
RECURSIVE DeleteConceptsLoop(_, _)
DeleteConceptsLoop(db, ids) ==
    IF ids = <<>> THEN [ok |-> TRUE, concepts |-> db]
    ELSE LET key == makeConceptKey(Head(ids))
         IN  IF ~HasConcept(db, key) THEN [ok |-> FALSE, concepts |-> db]
             ELSE LET concept == readConcept(db, key)
                      d1 == [db EXCEPT !.tidx = KvDelete(@, makeConceptTupleKey(concept.Name, concept.Type))]
                      d2 == [d1 EXCEPT !.rec = KvDelete(@, key)]
                  IN  DeleteConceptsLoop(d2, Tail(ids))

DeleteConcepts(db, ids) ==
    LET r == DeleteConceptsLoop(db, ids)
    IN  IF r.ok THEN r ELSE [ok |-> FALSE, concepts |-> db]

----------------------------------------------------------------------------
(* The repositories driven directly: any sequence of committed calls.      *)

NoOp == [op |-> "none", ok |-> TRUE, conceptsChanged |-> FALSE, tsChanged |-> FALSE, ids |-> <<>>]

Op(name, ok, cc, tc) ==
    [op |-> name, ok |-> ok, conceptsChanged |-> cc, tsChanged |-> tc, ids |-> <<>>]

\* A call that names records by id.
OpOn(name, ok, cc, tc, ids) == [Op(name, ok, cc, tc) EXCEPT !.ids = ids]

\* Timestamps callers pass: two in the same microsecond, one in the next.
Times == {1000, 1500, 2000}

RefA == ConceptRef(1, 5)
RefA7 == ConceptRef(1, 7)
RefB == ConceptRef(2, 5)

\* Concept lists callers pass: empty, one ref, the same concept with another
\* importance, two concepts in both orders, one concept twice.
ConceptLists == {<<>>, <<RefA>>, <<RefA7>>, <<RefA, RefB>>, <<RefB, RefA>>, <<RefA, RefA>>}

\* Record contents of a call with one record (every concept list at one
\* time, every time with no or one concept), and of a call with two.
Contents1 ==
    {ChatRecord(0, 1000, cs, NoVector) : cs \in ConceptLists}
        \cup {ChatRecord(0, t, cs, NoVector) : t \in Times, cs \in {<<>>, <<RefA>>}}
Contents2 == {ChatRecord(0, 1000, <<>>, NoVector), ChatRecord(0, 2000, <<RefA>>, NoVector)}

\* Ids a caller may name: every id issued so far and one never issued.
CallerIds == 1..(MaxRecords + 1)

Batches1(S) == {<<x>> : x \in S}
Batches2(S) == {<<x, y>> : x \in S, y \in S}

WithId(r, id) == [r EXCEPT !.Id = id]

\* Two records of different contents under any two ids, the same id included.
UpdatePairs ==
    {<<WithId(pr[1], i), WithId(pr[2], j)>> :
        pr \in {q \in Batches2(Contents2) : q[1] # q[2]}, i \in CallerIds, j \in CallerIds}

Procs == {"embedding", "concept"}

\* The database is empty and no pipeline has been constructed.
InitPipe ==
    /\ phase = "down"
    /\ recov = [embIDs |-> <<>>, conIDs |-> <<>>, err |-> FALSE]
    /\ poolSize = 1
    /\ poolClosed = [p \in Procs |-> TRUE]
    /\ tasks = EmptyMap
    /\ calls = EmptyMap
    /\ lastID = [p \in Procs |-> 0]
    /\ starts = 0
    /\ startupMax = 0
    /\ failed = [p \in Procs |-> {}]
    /\ embOK = {}
    /\ conOK = EmptyMap

InitDB ==
    /\ chat = EmptyChat
    /\ chatSeq = 0
    /\ concepts = EmptyConcepts
    /\ checkpoints = EmptyMap
    /\ lastOp = NoOp

\* The Backend struct: ctx (cancelled), the compaction goroutine StartGC
\* starts (worker, with the WaitGroup counter wg and its ticker), the value
\* log of the database (garbage: the files RunValueLogGC would still
\* rewrite), whether the database is closed, and the Close calls made so far
\* with the position of each. gcCalls counts the calls of RunValueLogGC and
\* lateCalls those made after a Close had returned (history).
NoBackend ==
    [cancelled |-> FALSE, worker |-> "none", wg |-> 0, tick |-> FALSE, ticks |-> 0,
     garbage |-> 0, writes |-> 0, closed |-> FALSE, close |-> <<>>,
     gcCalls |-> 0, lateCalls |-> 0]

\* No sequence has been opened and no id issued; the specifications that do
\* not follow the Backend's life keep it out of the picture.
InitSeq ==
    /\ seqStored = 0
    /\ seqLeased = 0
    /\ issued = <<>>
    /\ backend = NoBackend

InitStore == InitDB /\ InitPipe /\ InitSeq

\* ChatRepository.AddChatRecords, committed.
StoreAdd ==
    \E records \in Batches1(Contents1) \cup Batches2(Contents2) :
        /\ SeqNextID(chatSeq) + Len(records) - 1 <= MaxRecords
        /\ LET r == AddChatRecords(chat, chatSeq, records)
           IN  /\ chat' = r.chat
               /\ chatSeq' = r.seq
        /\ lastOp' = Op("add", TRUE, FALSE, FALSE)
        /\ UNCHANGED <<seqVars, concepts, checkpoints, pipeVars>>

\* Whether an update of the stored records by these changes a concept list / a timestamp.
ChangesConcepts(db, records) ==
    \E i \in 1..Len(records) :
        /\ HasChatRecord(db, records[i].Id)
        /\ ~conceptsEqual(db.rec[records[i].Id].Concepts, records[i].Concepts)

ChangesTimestamp(db, records) ==
    \E i \in 1..Len(records) :
        /\ HasChatRecord(db, records[i].Id)
        /\ UnixMicro(db.rec[records[i].Id].Timestamp) # UnixMicro(records[i].Timestamp)

\* ChatRepository.UpdateChatRecords: committed, or discarded with ErrNotFound.
StoreUpdate ==
    \E records \in Batches1({WithId(c, id) : c \in Contents1, id \in CallerIds}) \cup UpdatePairs :
        /\ LET r == UpdateChatRecords(chat, records)
           IN  /\ chat' = r.chat
               /\ lastOp' = OpOn("update", r.ok,
                                 r.ok /\ ChangesConcepts(chat, records),
                                 r.ok /\ ChangesTimestamp(chat, records),
                                 [i \in 1..Len(records) |-> records[i].Id])
        /\ UNCHANGED <<seqVars, chatSeq, concepts, checkpoints, pipeVars>>

\* ChatRepository.DeleteChatRecords: committed, or discarded with ErrNotFound.
StoreDelete ==
    \E ids \in Batches1(CallerIds) \cup Batches2(CallerIds) :
        /\ LET r == DeleteChatRecords(chat, ids)
           IN  /\ chat' = r.chat
               /\ lastOp' = OpOn("delete", r.ok, FALSE, FALSE, ids)
        /\ UNCHANGED <<seqVars, chatSeq, concepts, checkpoints, pipeVars>>

NextStore == StoreAdd \/ StoreUpdate \/ StoreDelete

SpecStore == InitStore /\ [][NextStore]_vars

(* The concept repository driven directly. *)

\* Concepts callers pass; callers of AddConcepts leave the id unset (0).
ConceptInputs(ids) == {Concept(id, nt[1], nt[2]) : id \in ids, nt \in NameTypePairs}

ContentIds == 1..Len(ContentTable)

\* ConceptRepository.AddConcepts, committed.
ConceptAdd ==
    \E cs \in Batches1(ConceptInputs({0})) :
        /\ concepts' = AddConcepts(concepts, cs).concepts
        /\ lastOp' = Op("addConcepts", TRUE, FALSE, FALSE)
        /\ UNCHANGED <<seqVars, chat, chatSeq, checkpoints, pipeVars>>

\* ConceptRepository.UpdateConcepts: committed, or discarded with ErrNotFound.
ConceptUpdate ==
    \E cs \in Batches1(ConceptInputs(ContentIds)) :
        /\ LET r == UpdateConcepts(concepts, cs)
           IN  /\ concepts' = r.concepts
               /\ lastOp' = Op("updateConcepts", r.ok, FALSE, FALSE)
        /\ UNCHANGED <<seqVars, chat, chatSeq, checkpoints, pipeVars>>

\* ConceptRepository.DeleteConcepts: committed, or discarded with ErrNotFound.
ConceptDelete ==
    \E ids \in Batches1(ContentIds) :
        /\ LET r == DeleteConcepts(concepts, ids)
           IN  /\ concepts' = r.concepts
               /\ lastOp' = Op("deleteConcepts", r.ok, FALSE, FALSE)
        /\ UNCHANGED <<seqVars, chat, chatSeq, checkpoints, pipeVars>>

NextConcept == ConceptAdd \/ ConceptUpdate \/ ConceptDelete

SpecConcept == InitStore /\ [][NextConcept]_vars

----------------------------------------------------------------------------
(* Claims about the indices.                                               *)

LiveIds == DOMAIN chat.rec

RefersTo(r, c) == \E i \in 1..Len(r.Concepts) : r.Concepts[i].ConceptId = c

\* Every concept id a record or an index key mentions.
MentionedConcepts ==
    {k[1] : k \in DOMAIN chat.cidx}
        \cup UNION {{chat.rec[id].Concepts[i].ConceptId : i \in 1..Len(chat.rec[id].Concepts)} : id \in LiveIds}

\* C8: after any sequence of committed add, update and delete calls,
\* by_concept(c) returns exactly the ids of the live records whose current
\* concepts list contains c, and the index holds nothing but those entries.
C8_ByConceptExact ==
    /\ \A c \in MentionedConcepts :
          GetChatRecordsByConcept(chat, c) = {id \in LiveIds : RefersTo(chat.rec[id], c)}
    /\ \A k \in DOMAIN chat.cidx : chat.cidx[k] = k[2]

\* An update has just changed the concepts of a record while another record
\* is gone and a live one still refers to a concept.
C8_Witness ==
    /\ lastOp.op = "update" /\ lastOp.conceptsChanged
    /\ \E id \in 1..MaxRecords : id \notin LiveIds /\ id < chatSeq
    /\ \E id \in LiveIds : Len(chat.rec[id].Concepts) > 0

\* C9: after any sequence of committed add, update and delete calls, the
\* date index holds exactly one entry per live record, keyed by the record's
\* current timestamp (in microseconds) and id and holding its id.
C9_DateIndexExact ==
    /\ DOMAIN chat.date = {makeChatDateKey(chat.rec[id].Timestamp, id) : id \in LiveIds}
    /\ \A k \in DOMAIN chat.date : chat.date[k] = k[2]

\* An update has just moved a record to another microsecond while another
\* record is gone.
C9_Witness ==
    /\ lastOp.op = "update" /\ lastOp.tsChanged
    /\ \E id \in 1..MaxRecords : id \notin LiveIds /\ id < chatSeq
    /\ LiveIds # {}

NamesAbsent(db, ids) == \E i \in 1..Len(ids) : ~HasChatRecord(db, makeChatRecordKey(ids[i]))

\* C16: an UpdateChatRecords or DeleteChatRecords call that names at least
\* one id with no record fails with ErrNotFound and leaves the records and
\* both indexes as they were before the call.
C16_AbsentIdAbortsBatch ==
    [][(lastOp'.op \in {"update", "delete"} /\ NamesAbsent(chat, lastOp'.ids))
          => (~lastOp'.ok /\ chat' = chat)]_vars

\* An update of two records has failed: the first id has a record, whose
\* concepts the update would have replaced, and the second has none.
C16_Witness ==
    /\ lastOp.op = "update"
    /\ ~lastOp.ok
    /\ Len(lastOp.ids) = 2
    /\ HasChatRecord(chat, makeChatRecordKey(lastOp.ids[1]))
    /\ ~HasChatRecord(chat, makeChatRecordKey(lastOp.ids[2]))
    /\ readChatRecord(chat, makeChatRecordKey(lastOp.ids[1])).Concepts = <<RefA, RefB>>

LiveConcepts == DOMAIN concepts.rec

TupleKeyOf(c) == makeConceptTupleKey(c.Name, c.Type)

\* C10: after any sequence of committed concept add, update and delete
\* calls, the tuple index holds exactly one entry per live concept, that
\* entry is under the concept's (name, type) and resolves to the concept's
\* id, and no other entry remains.
C10_TupleIndexExact ==
    /\ \A id \in LiveConcepts :
          /\ TupleKeyOf(concepts.rec[id]) \in DOMAIN concepts.tidx
          /\ concepts.tidx[TupleKeyOf(concepts.rec[id])] = id
          /\ Cardinality({k \in DOMAIN concepts.tidx : concepts.tidx[k] = id}) = 1
    /\ \A k \in DOMAIN concepts.tidx : concepts.tidx[k] \in LiveConcepts

----------------------------------------------------------------------------
(* Checkpoints.                                                            *)

Checkpoint(processorType, id) == [ProcessorType |-> processorType, LastID |-> id]

makeCheckpointKey(processorType) == processorType

\* SaveCheckpoint: the value under the processor's key is replaced.
SaveCheckpoint(cps, checkpoint) ==
    KvSet(cps, makeCheckpointKey(checkpoint.ProcessorType), checkpoint)

\* LoadCheckpoint: "nil" when the key is absent.
HasCheckpoint(cps, processorType) == makeCheckpointKey(processorType) \in DOMAIN cps
LoadCheckpoint(cps, processorType) == cps[makeCheckpointKey(processorType)]

\* The persisted last id of a processor, 0 when it has no checkpoint.
CheckpointID(cps, processorType) ==
    IF HasCheckpoint(cps, processorType) THEN LoadCheckpoint(cps, processorType).LastID ELSE 0

----------------------------------------------------------------------------
(* The processors.                                                         *)

ProcessorTypeEmbedding == "embedding"
ProcessorTypeConcept == "concept"

\* slices.Sort
RECURSIVE SortInsert(_, _)
SortInsert(s, x) ==
    IF s = <<>> THEN <<x>>
    ELSE IF x <= Head(s) THEN <<x>> \o s
    ELSE <<Head(s)>> \o SortInsert(Tail(s), x)

RECURSIVE Sort(_)
Sort(ids) == IF ids = <<>> THEN <<>> ELSE SortInsert(Sort(Tail(ids)), Head(ids))

RECURSIVE SetToSeq(_)
SetToSeq(S) ==
    IF S = {} THEN <<>>
    ELSE LET x == CHOOSE y \in S : TRUE IN <<x>> \o SetToSeq(S \ {x})

IdsOf(records) == [i \in 1..Len(records) |-> records[i].Id]

\* The vector the embedder returns for a text.
Vec == <<1>>

\* embeddingProcessor.process up to its UpdateChatRecords call: the records
\* read in one transaction, each with its vector set.
EmbeddingRead(db, ids) ==
    LET records == GetChatRecords(db, Sort(ids))
    IN  [i \in 1..Len(records) |-> [records[i] EXCEPT !.Vector = Vec]]

\* What the extractor may return for one record: an error, or a list of
\* extracted concepts.
ExtractedConcept(name, type, importance) ==
    [Name |-> name, Type |-> type, Importance |-> importance]

ExtractOutcomes ==
    { [ok |-> FALSE, found |-> <<>>],
      [ok |-> TRUE, found |-> <<>>],
      [ok |-> TRUE, found |-> <<ExtractedConcept("ab", "t", 8)>>] }

\* Step 1 of conceptProcessor.process for one record: a classified record
\* gets a concepts array of zero references, a failed one is left as read.
Classified(record, out) ==
    IF out.ok
    THEN [record EXCEPT !.Concepts = [j \in 1..Len(out.found) |-> ConceptRef(0, 0)]]
    ELSE record

\* allConcepts: the extracted concepts of the classified records in the order
\* they are first seen, each content id once.
RECURSIVE ExtractedInOrder(_, _)
ExtractedInOrder(outs, i) ==
    IF i > Len(outs) THEN <<>>
    ELSE (IF outs[i].ok THEN outs[i].found ELSE <<>>) \o ExtractedInOrder(outs, i + 1)

RECURSIVE FirstSeen(_, _)
FirstSeen(cs, acc) ==
    IF cs = <<>> THEN acc
    ELSE FirstSeen(Tail(cs),
            IF \E k \in 1..Len(acc) : IDFromContent(Tuple(acc[k])) = IDFromContent(Tuple(Head(cs)))
            THEN acc ELSE Append(acc, Head(cs)))

AllConcepts(outs) == FirstSeen(ExtractedInOrder(outs, 1), <<>>)

\* FindConceptByNameAndType: found when the tuple key and the concept it
\* names are both present.
FoundByNameAndType(db, name, conceptType) ==
    /\ makeConceptTupleKey(name, conceptType) \in DOMAIN db.tidx
    /\ HasConcept(db, makeConceptKey(db.tidx[makeConceptTupleKey(name, conceptType)]))

FindConceptByNameAndType(db, name, conceptType) ==
    readConcept(db, makeConceptKey(db.tidx[makeConceptTupleKey(name, conceptType)]))

\* GetOrCreateConcept, its AddConcepts succeeding.
GetOrCreateConcept(db, name, conceptType) ==
    IF FoundByNameAndType(db, name, conceptType)
    THEN [concepts |-> db, concept |-> FindConceptByNameAndType(db, name, conceptType)]
    ELSE LET r == AddConcepts(db, <<Concept(IDFromContent("(" \o conceptType \o "," \o name \o ")"),
                                            name, conceptType)>>)
         IN  [concepts |-> r.concepts, concept |-> r.added[1]]

\* getOrCreateConcepts when the embedder succeeds.
RECURSIVE getOrCreateConcepts(_, _, _)
getOrCreateConcepts(db, rawConcepts, result) ==
    IF rawConcepts = <<>> THEN [concepts |-> db, result |-> result]
    ELSE LET r == GetOrCreateConcept(db, Head(rawConcepts).Name, Head(rawConcepts).Type)
         IN  getOrCreateConcepts(r.concepts, Tail(rawConcepts), Append(result, r.concept))

\* Step 3: a position gets its reference when a resolved concept carries the
\* content id the position was recorded under.
Distributed(record, out, resolvedIds) ==
    IF out.ok
    THEN [record EXCEPT !.Concepts =
            [j \in 1..Len(out.found) |->
                IF IDFromContent(Tuple(out.found[j])) \in resolvedIds
                THEN ConceptRef(IDFromContent(Tuple(out.found[j])), out.found[j].Importance)
                ELSE ConceptRef(0, 0)]]
    ELSE record

\* conceptProcessor.process up to its UpdateChatRecords call.  outs is what
\* the extractor returns per record, embedOK whether the embedder called by
\* getOrCreateConcepts succeeds.  errs are the positions of the records whose
\* concepts could not be assigned.
ConceptRead(chatDB, conceptDB, ids, outs, embedOK) ==
    LET records == GetChatRecords(chatDB, Sort(ids))
        n == Len(records)
        allConcepts == AllConcepts(outs)
        called == allConcepts # <<>>
        goc == getOrCreateConcepts(conceptDB, allConcepts, <<>>)
        resolvedIds == IF called /\ embedOK THEN {goc.result[k].Id : k \in 1..Len(goc.result)} ELSE {}
        getOrCreateErr == called /\ ~embedOK
    IN  [records |-> [i \in 1..n |-> Distributed(Classified(records[i], outs[i]), outs[i], resolvedIds)],
         concepts |-> IF called /\ embedOK THEN goc.concepts ELSE conceptDB,
         errs |-> {i \in 1..n : ~outs[i].ok \/ (getOrCreateErr /\ outs[i].found # <<>>)},
         failedCall |-> getOrCreateErr \/ \E i \in 1..n : ~outs[i].ok]

----------------------------------------------------------------------------
(* The ingestion pipeline.                                                 *)

\* Ingest calls one pipeline serves.
MaxIngest == 2
\* Messages one Ingest call carries.
MaxBatch == 1
\* Largest pool size WithPoolSize is given.
MaxPoolSize == 2
\* Times NewPipeline is called on the database.
MaxStarts == 2

progressInterval == 10

\* The timestamp Ingest gives its records.
IngestTime == 1000

Min2(a, b) == IF a < b THEN a ELSE b

\* GetChatRecordsAfterID: the records whose id is above id, by ascending id.
GetChatRecordsAfterID(db, id) ==
    GetChatRecords(db, Sort(SetToSeq({i \in DOMAIN db.rec : i > id})))

\* A filter that also keeps the id of the checkpoint itself.
filterIDsFrom(ids, afterID) == SelectSeq(ids, LAMBDA id : id >= afterID)

filterIDsAfter(ids, afterID) == SelectSeq(ids, LAMBDA id : id > afterID)

\* recover: the lowest checkpoint, 0 when either processor has none.
recoverLowest(cps) ==
    IF HasCheckpoint(cps, ProcessorTypeEmbedding) /\ HasCheckpoint(cps, ProcessorTypeConcept)
    THEN Min2(CheckpointID(cps, ProcessorTypeEmbedding), CheckpointID(cps, ProcessorTypeConcept))
    ELSE 0

\* recover up to its two filters: the ids of the records after the lowest
\* checkpoint, and of them the ids each processor has still to process.
recoverPending(db, cps) ==
    LET allIDs == IdsOf(GetChatRecordsAfterID(db, recoverLowest(cps)))
    IN  [embIDs |-> filterIDsAfter(allIDs, CheckpointID(cps, ProcessorTypeEmbedding)),
         conIDs |-> filterIDsAfter(allIDs, CheckpointID(cps, ProcessorTypeConcept)),
         err |-> FALSE]

\* Nothing to recover and no error returned by recover.
NoRecovery == [embIDs |-> <<>>, conIDs |-> <<>>, err |-> FALSE]

AllClosed == [p \in Procs |-> TRUE]

\* Workers of a pool that are running a task.
Running(p) == Cardinality({t \in DOMAIN tasks : t[2] = p})

NewTask(ids) == [pc |-> "read", ids |-> ids, records |-> <<>>, val |-> 0, errs |-> {}]

\* The ids a concept update has assigned concepts to, and the others.
Assigned(records, errs) == {records[i].Id : i \in (1..Len(records)) \ errs}
NotAssigned(records, errs) == {records[i].Id : i \in (1..Len(records)) \cap errs}

ConOKAfter(m, records, errs) ==
    [id \in ((DOMAIN m) \ NotAssigned(records, errs)) \cup Assigned(records, errs) |->
        IF id \in Assigned(records, errs)
        THEN LET i == CHOOSE k \in 1..Len(records) : records[k].Id = id
             IN  records[i].Concepts
        ELSE m[id]]

(* Construction and startup recovery. *)

\* NewPipeline up to the point where recover has loaded both checkpoints and
\* the records after the lowest one.
NewPipeline ==
    /\ phase = "down"
    /\ starts < MaxStarts
    /\ \E size \in 1..MaxPoolSize : poolSize' = size
    /\ poolClosed' = [p \in Procs |-> FALSE]
    /\ lastID' = [p \in Procs |-> 0]
    /\ starts' = starts + 1
    /\ startupMax' = Max(DOMAIN chat.rec)
    /\ recov' = recoverPending(chat, checkpoints)
    /\ phase' = "recovering"
    /\ UNCHANGED <<seqVars, storeVars, tasks, calls, failed, embOK, conOK>>

\* Recovery that goes on with the chunks left after a chunk has failed.
AfterFailedChunkGoOn(rest) ==
    [phase |-> "recovering", poolClosed |-> poolClosed, recov |-> [rest EXCEPT !.err = TRUE]]

\* process has failed for a chunk: processWithProgress and recover return
\* the error, NewPipeline releases the pools and returns the error and no
\* pipeline.  rest is what recovery had still to process after the chunk.
AfterFailedChunk(rest) ==
    [phase |-> "down", poolClosed |-> AllClosed, recov |-> [NoRecovery EXCEPT !.err = TRUE]]

\* recover has nothing left to do and is about to return nil.
Recovered == phase = "recovering" /\ recov = NoRecovery

\* One round of processWithProgress for the embedding processor: process a
\* chunk, then checkpoint.  A failed process aborts NewPipeline, which
\* releases the pipeline; a failed checkpoint is logged.
RecoverEmbedding ==
    /\ phase = "recovering"
    /\ recov.embIDs # <<>>
    /\ LET n == Min2(progressInterval, Len(recov.embIDs))
           chunk == SubSeq(recov.embIDs, 1, n)
           records == EmbeddingRead(chat, chunk)
           u == UpdateChatRecords(chat, records)
           highestID == records[Len(records)].Id
           newLast == IF highestID > lastID[ProcessorTypeEmbedding]
                      THEN highestID ELSE lastID[ProcessorTypeEmbedding]
       IN  \E embedOK \in BOOLEAN, txOK \in BOOLEAN, saveOK \in BOOLEAN :
             IF embedOK /\ txOK /\ u.ok
             THEN /\ chat' = u.chat
                  /\ lastID' = [lastID EXCEPT ![ProcessorTypeEmbedding] = newLast]
                  /\ checkpoints' = IF saveOK /\ newLast # 0
                                    THEN SaveCheckpoint(checkpoints, Checkpoint(ProcessorTypeEmbedding, newLast))
                                    ELSE checkpoints
                  /\ recov' = [recov EXCEPT !.embIDs = SubSeq(@, n + 1, Len(@))]
                  /\ embOK' = embOK \cup Range(chunk)
                  /\ failed' = [failed EXCEPT ![ProcessorTypeEmbedding] = @ \ Range(chunk)]
                  /\ UNCHANGED <<phase, poolClosed>>
             ELSE /\ LET a == AfterFailedChunk([recov EXCEPT !.embIDs = SubSeq(@, n + 1, Len(@))])
                     IN  /\ phase' = a.phase
                         /\ poolClosed' = a.poolClosed
                         /\ recov' = a.recov
                  /\ UNCHANGED <<chat, lastID, checkpoints, embOK, failed>>
    /\ UNCHANGED <<seqVars, chatSeq, concepts, lastOp, poolSize, tasks, calls, starts, startupMax, conOK>>

\* One round of processWithProgress for the concept processor; its
\* checkpoint does nothing.
RecoverConcept ==
    /\ phase = "recovering"
    /\ recov.embIDs = <<>>
    /\ recov.conIDs # <<>>
    /\ LET n == Min2(progressInterval, Len(recov.conIDs))
           chunk == SubSeq(recov.conIDs, 1, n)
       IN  \E outs \in [1..n -> ExtractOutcomes], embedOK \in BOOLEAN, txOK \in BOOLEAN :
             LET r == ConceptRead(chat, concepts, chunk, outs, embedOK)
                 u == UpdateChatRecords(chat, r.records)
                 updated == txOK /\ u.ok
             IN  /\ concepts' = r.concepts
                 /\ chat' = IF updated THEN u.chat ELSE chat
                 /\ lastID' = IF updated /\ Len(r.records) > 0
                              THEN [lastID EXCEPT ![ProcessorTypeConcept] = r.records[Len(r.records)].Id]
                              ELSE lastID
                 /\ conOK' = IF updated THEN ConOKAfter(conOK, r.records, r.errs) ELSE conOK
                 /\ failed' = IF updated
                              THEN [failed EXCEPT ![ProcessorTypeConcept] = @ \ Assigned(r.records, r.errs)]
                              ELSE failed
                 /\ IF r.failedCall \/ ~updated
                    THEN LET a == AfterFailedChunk([recov EXCEPT !.conIDs = SubSeq(@, n + 1, Len(@))])
                         IN  /\ phase' = a.phase
                             /\ poolClosed' = a.poolClosed
                             /\ recov' = a.recov
                    ELSE /\ recov' = [recov EXCEPT !.conIDs = SubSeq(@, n + 1, Len(@))]
                         /\ UNCHANGED <<phase, poolClosed>>
    /\ UNCHANGED <<seqVars, chatSeq, checkpoints, lastOp, poolSize, tasks, calls, starts, startupMax, embOK>>

\* recover returns nil and NewPipeline hands the pipeline to its caller.
NewPipelineReturn ==
    /\ Recovered
    /\ phase' = "up"
    /\ UNCHANGED <<seqVars, storeVars, recov, poolSize, poolClosed, tasks, calls, lastID, starts,
                   startupMax, failed, embOK, conOK>>

(* Ingest. *)

Call(pc, ids, err) == [pc |-> pc, ids |-> ids, err |-> err, accE |-> FALSE, accC |-> FALSE]

\* Ingest up to its first Submit: the records are added in one transaction.
\* An error of the add and an empty batch both end the call.
IngestAdd ==
    /\ phase = "up"
    /\ Cardinality(DOMAIN calls) < MaxIngest
    /\ \E n \in 0..MaxBatch, addOK \in BOOLEAN :
         LET c == Cardinality(DOMAIN calls) + 1
             r == AddChatRecords(chat, chatSeq,
                      [i \in 1..n |-> ChatRecord(0, IngestTime, <<>>, NoVector)])
         IN  /\ SeqNextID(chatSeq) + n - 1 <= MaxIngest * MaxBatch
             /\ IF addOK
                THEN /\ chat' = r.chat
                     /\ chatSeq' = r.seq
                     /\ calls' = KvSet(calls, c,
                            Call(IF Len(r.added) = 0 THEN "returned" ELSE "submitE", IdsOf(r.added), FALSE))
                ELSE /\ calls' = KvSet(calls, c, Call("returned", <<>>, TRUE))
                     /\ UNCHANGED <<chat, chatSeq>>
    /\ UNCHANGED <<seqVars, concepts, checkpoints, lastOp, phase, recov, poolSize, poolClosed, tasks,
                   lastID, starts, startupMax, failed, embOK, conOK>>

\* ants.Pool.Submit as Ingest calls it: a released pool returns ErrPoolClosed,
\* a pool with a free worker hands it the task, and a pool whose workers are
\* all running blocks the caller.  Ingest drops what Submit returns.
SubmitEnabled(p) == poolClosed[p] \/ Running(p) < poolSize

TasksAfterSubmit(c, p) ==
    IF poolClosed[p] THEN tasks ELSE KvSet(tasks, <<c, p>>, NewTask(calls[c].ids))

IngestSubmitEmbedding(c) ==
    /\ c \in DOMAIN calls
    /\ calls[c].pc = "submitE"
    /\ SubmitEnabled(ProcessorTypeEmbedding)
    /\ tasks' = TasksAfterSubmit(c, ProcessorTypeEmbedding)
    /\ calls' = [calls EXCEPT ![c].pc = "submitC",
                              ![c].accE = ~poolClosed[ProcessorTypeEmbedding]]
    /\ UNCHANGED <<seqVars, storeVars, phase, recov, poolSize, poolClosed, lastID, starts,
                   startupMax, failed, embOK, conOK>>

IngestSubmitConcept(c) ==
    /\ c \in DOMAIN calls
    /\ calls[c].pc = "submitC"
    /\ SubmitEnabled(ProcessorTypeConcept)
    /\ tasks' = TasksAfterSubmit(c, ProcessorTypeConcept)
    /\ calls' = [calls EXCEPT ![c].pc = "returned",
                              ![c].accC = ~poolClosed[ProcessorTypeConcept]]
    /\ UNCHANGED <<seqVars, storeVars, phase, recov, poolSize, poolClosed, lastID, starts,
                   startupMax, failed, embOK, conOK>>

(* The enrichment tasks the pool workers run. *)

EmbeddingTask(c) == <<c, ProcessorTypeEmbedding>>
ConceptTask(c) == <<c, ProcessorTypeConcept>>

At(t, pc) == t \in DOMAIN tasks /\ tasks[t].pc = pc

\* The task's function has returned: its worker is free again.
Finished(t) == KvDelete(tasks, t)

\* The task after process returned an error, going on to checkpoint.
AfterProcessErrorCheckpoint(t) == [tasks EXCEPT ![t].pc = "checkpoint"]

\* The task after process returned an error: the error is logged and the
\* task's function returns.
AfterProcessError(t) == Finished(t)

\* The embedding task: GetChatRecords and EmbedTexts.  An error ends the task
\* with a log line.
EmbeddingProcessRead(c) ==
    /\ At(EmbeddingTask(c), "read")
    /\ \E embedOK \in BOOLEAN :
         IF embedOK
         THEN /\ tasks' = [tasks EXCEPT ![EmbeddingTask(c)].pc = "update",
                                        ![EmbeddingTask(c)].records =
                                            EmbeddingRead(chat, tasks[EmbeddingTask(c)].ids)]
              /\ UNCHANGED failed
         ELSE /\ tasks' = AfterProcessError(EmbeddingTask(c))
              /\ failed' = [failed EXCEPT ![ProcessorTypeEmbedding] =
                                @ \cup Range(tasks[EmbeddingTask(c)].ids)]
    /\ UNCHANGED <<seqVars, storeVars, phase, recov, poolSize, poolClosed, calls, lastID, starts,
                   startupMax, embOK, conOK>>

\* The embedding task: UpdateChatRecords with the records read earlier.
EmbeddingProcessUpdate(c) ==
    /\ At(EmbeddingTask(c), "update")
    /\ LET t == tasks[EmbeddingTask(c)]
           u == UpdateChatRecords(chat, t.records)
       IN  \E txOK \in BOOLEAN :
             IF txOK /\ u.ok
             THEN /\ chat' = u.chat
                  /\ tasks' = [tasks EXCEPT ![EmbeddingTask(c)].pc = "compare",
                                            ![EmbeddingTask(c)].val = t.records[Len(t.records)].Id]
                  /\ embOK' = embOK \cup Range(t.ids)
                  /\ failed' = [failed EXCEPT ![ProcessorTypeEmbedding] = @ \ Range(t.ids)]
             ELSE /\ tasks' = AfterProcessError(EmbeddingTask(c))
                  /\ failed' = [failed EXCEPT ![ProcessorTypeEmbedding] = @ \cup Range(t.ids)]
                  /\ UNCHANGED <<chat, embOK>>
    /\ UNCHANGED <<seqVars, chatSeq, concepts, checkpoints, lastOp, phase, recov, poolSize, poolClosed,
                   calls, lastID, starts, startupMax, conOK>>

\* The embedding task: "if highestID > ep.lastID", read without a lock.
EmbeddingCompare(c) ==
    /\ At(EmbeddingTask(c), "compare")
    /\ tasks' = [tasks EXCEPT ![EmbeddingTask(c)].pc =
                    IF tasks[EmbeddingTask(c)].val > lastID[ProcessorTypeEmbedding]
                    THEN "store" ELSE "checkpoint"]
    /\ UNCHANGED <<seqVars, storeVars, phase, recov, poolSize, poolClosed, calls, lastID, starts,
                   startupMax, failed, embOK, conOK>>

\* The embedding task: "ep.lastID = highestID".
EmbeddingStore(c) ==
    /\ At(EmbeddingTask(c), "store")
    /\ lastID' = [lastID EXCEPT ![ProcessorTypeEmbedding] = tasks[EmbeddingTask(c)].val]
    /\ tasks' = [tasks EXCEPT ![EmbeddingTask(c)].pc = "checkpoint"]
    /\ UNCHANGED <<seqVars, storeVars, phase, recov, poolSize, poolClosed, calls, starts,
                   startupMax, failed, embOK, conOK>>

\* embeddingProcessor.checkpoint: nothing to save while lastID is 0, else the
\* checkpoint to save is built from lastID.
EmbeddingCheckpoint(c) ==
    /\ At(EmbeddingTask(c), "checkpoint")
    /\ tasks' = IF lastID[ProcessorTypeEmbedding] = 0
                THEN Finished(EmbeddingTask(c))
                ELSE [tasks EXCEPT ![EmbeddingTask(c)].pc = "save",
                                   ![EmbeddingTask(c)].val = lastID[ProcessorTypeEmbedding]]
    /\ UNCHANGED <<seqVars, storeVars, phase, recov, poolSize, poolClosed, calls, lastID, starts,
                   startupMax, failed, embOK, conOK>>

\* embeddingProcessor.checkpoint: SaveCheckpoint; its error is logged.
EmbeddingSave(c) ==
    /\ At(EmbeddingTask(c), "save")
    /\ \E saveOK \in BOOLEAN :
         checkpoints' = IF saveOK
                        THEN SaveCheckpoint(checkpoints,
                                Checkpoint(ProcessorTypeEmbedding, tasks[EmbeddingTask(c)].val))
                        ELSE checkpoints
    /\ tasks' = Finished(EmbeddingTask(c))
    /\ UNCHANGED <<seqVars, chat, chatSeq, concepts, lastOp, phase, recov, poolSize, poolClosed, calls,
                   lastID, starts, startupMax, failed, embOK, conOK>>

\* The concept task: GetChatRecords, the classification of every record and
\* getOrCreateConcepts.
ConceptProcessRead(c) ==
    /\ At(ConceptTask(c), "read")
    /\ LET t == tasks[ConceptTask(c)]
       IN  \E outs \in [1..Len(t.ids) -> ExtractOutcomes], embedOK \in BOOLEAN :
             LET r == ConceptRead(chat, concepts, t.ids, outs, embedOK)
             IN  /\ concepts' = r.concepts
                 /\ tasks' = [tasks EXCEPT ![ConceptTask(c)].pc = "update",
                                           ![ConceptTask(c)].records = r.records,
                                           ![ConceptTask(c)].errs = r.errs,
                                           ![ConceptTask(c)].val = IF r.failedCall THEN 1 ELSE 0]
    /\ UNCHANGED <<seqVars, chat, chatSeq, checkpoints, lastOp, phase, recov, poolSize, poolClosed, calls,
                   lastID, starts, startupMax, failed, embOK, conOK>>

\* The concept task: UpdateChatRecords with the records read earlier, then
\* lastID, then the return of process: the errors collected, or nil.
ConceptProcessUpdate(c) ==
    /\ At(ConceptTask(c), "update")
    /\ LET t == tasks[ConceptTask(c)]
           u == UpdateChatRecords(chat, t.records)
       IN  \E txOK \in BOOLEAN :
             /\ IF txOK /\ u.ok
                THEN /\ chat' = u.chat
                     /\ lastID' = IF Len(t.records) > 0
                                  THEN [lastID EXCEPT ![ProcessorTypeConcept] = t.records[Len(t.records)].Id]
                                  ELSE lastID
                     /\ conOK' = ConOKAfter(conOK, t.records, t.errs)
                     /\ failed' = [failed EXCEPT ![ProcessorTypeConcept] =
                                       (@ \ Assigned(t.records, t.errs)) \cup NotAssigned(t.records, t.errs)]
                ELSE /\ failed' = [failed EXCEPT ![ProcessorTypeConcept] = @ \cup Range(t.ids)]
                     /\ UNCHANGED <<chat, lastID, conOK>>
             /\ tasks' = IF txOK /\ u.ok /\ t.val = 0
                         THEN [tasks EXCEPT ![ConceptTask(c)].pc = "checkpoint"]
                         ELSE AfterProcessError(ConceptTask(c))
    /\ UNCHANGED <<seqVars, chatSeq, concepts, checkpoints, lastOp, phase, recov, poolSize, poolClosed,
                   calls, starts, startupMax, embOK>>

\* conceptProcessor.checkpoint: it saves nothing and returns nil.
ConceptCheckpoint(c) ==
    /\ At(ConceptTask(c), "checkpoint")
    /\ tasks' = Finished(ConceptTask(c))
    /\ UNCHANGED <<seqVars, storeVars, phase, recov, poolSize, poolClosed, calls, lastID, starts,
                   startupMax, failed, embOK, conOK>>

(* The end of a pipeline. *)

\* Pipeline.Release: ants.Pool.Release closes each pool and returns; it does
\* not wait for the workers that are running a task, and it wakes the callers
\* blocked in Submit.
Release ==
    /\ phase = "up"
    /\ phase' = "released"
    /\ poolClosed' = AllClosed
    /\ UNCHANGED <<seqVars, storeVars, recov, poolSize, tasks, calls, lastID, starts,
                   startupMax, failed, embOK, conOK>>

\* The process ends; what is in memory is gone, the database stays.
Exit ==
    /\ phase \in {"up", "released"}
    /\ starts < MaxStarts
    /\ phase' = "down"
    /\ poolClosed' = AllClosed
    /\ tasks' = EmptyMap
    /\ calls' = EmptyMap
    /\ lastID' = [p \in Procs |-> 0]
    /\ UNCHANGED <<seqVars, storeVars, recov, poolSize, starts, startupMax, failed, embOK, conOK>>

Init == InitDB /\ InitPipe /\ InitSeq

Next ==
    \/ NewPipeline
    \/ RecoverEmbedding
    \/ RecoverConcept
    \/ NewPipelineReturn
    \/ IngestAdd
    \/ \E c \in 1..MaxIngest : IngestSubmitEmbedding(c)
    \/ \E c \in 1..MaxIngest : IngestSubmitConcept(c)
    \/ \E c \in 1..MaxIngest : EmbeddingProcessRead(c)
    \/ \E c \in 1..MaxIngest : EmbeddingProcessUpdate(c)
    \/ \E c \in 1..MaxIngest : EmbeddingCompare(c)
    \/ \E c \in 1..MaxIngest : EmbeddingStore(c)
    \/ \E c \in 1..MaxIngest : EmbeddingCheckpoint(c)
    \/ \E c \in 1..MaxIngest : EmbeddingSave(c)
    \/ \E c \in 1..MaxIngest : ConceptProcessRead(c)
    \/ \E c \in 1..MaxIngest : ConceptProcessUpdate(c)
    \/ \E c \in 1..MaxIngest : ConceptCheckpoint(c)
    \/ Release
    \/ Exit

Spec == Init /\ [][Next]_vars

----------------------------------------------------------------------------
(* Claims about the pipeline.                                              *)

\* C1: when startup recovery has completed successfully, the persisted
\* checkpoints of the embedding and of the concept processor are both at
\* least the largest chat-record id that existed when the pipeline was
\* constructed.
C1_RecoveryReachesStartupMax ==
    Recovered =>
        Min2(CheckpointID(checkpoints, ProcessorTypeEmbedding),
             CheckpointID(checkpoints, ProcessorTypeConcept)) >= startupMax

\* C2: once the embedding processing and the concept processing of a record
\* have both succeeded, the stored record holds the vector the embedding
\* processor wrote and the concepts the concept processor wrote: neither
\* overwrote the other's fields.
C2_BothFieldsKept ==
    \A id \in embOK \cap DOMAIN conOK :
        HasChatRecord(chat, makeChatRecordKey(id)) =>
            /\ readChatRecord(chat, makeChatRecordKey(id)).Vector = Vec
            /\ readChatRecord(chat, makeChatRecordKey(id)).Concepts = conOK[id]

\* C3: when startup recovery has completed successfully, every record whose
\* enrichment failed in an ingest worker task has since been processed again
\* by the processor that failed on it.
C3_FailedReprocessed ==
    Recovered => \A p \in Procs : failed[p] = {}

\* C4: for each processor type, the persisted last id never decreases from
\* one step to the next.
C4_CheckpointMonotonic ==
    [][\A p \in Procs : CheckpointID(checkpoints', p) >= CheckpointID(checkpoints, p)]_vars

\* C5: every Ingest call that committed at least one record and has returned
\* had its embedding task and its concept task accepted by the pools.
C5_TasksAccepted ==
    \A c \in DOMAIN calls :
        (calls[c].pc = "returned" /\ calls[c].ids # <<>>) =>
            calls[c].accE /\ calls[c].accC

\* C6: once Release has returned, no enrichment task is running.
C6_ReleaseDrains ==
    phase = "released" => tasks = EmptyMap

\* C7: an Ingest call that has committed its records is never kept waiting
\* by a Submit: whatever tasks are running, its next step can be taken.
C7_IngestNeverWaits ==
    \A c \in DOMAIN calls :
        /\ calls[c].pc = "submitE" => SubmitEnabled(ProcessorTypeEmbedding)
        /\ calls[c].pc = "submitC" => SubmitEnabled(ProcessorTypeConcept)

----------------------------------------------------------------------------
(* The id sequence, and AddChatRecords step by step.                       *)

\* Times the database is opened.
MaxOpens == 2
\* AddChatRecords calls one open repository serves.
MaxAdds == 2
\* Ids the sequence issues to AddChatRecords over the life of the database.
MaxIssued == 4

defaultSequenceBandwidth == 100

\* A badger.Sequence: its next and leased fields, and the value under its key.
Sequence(next, leased, stored) == [next |-> next, leased |-> leased, stored |-> stored]

idSeq == Sequence(chatSeq, seqLeased, seqStored)

\* badger.Sequence.updateLease: next becomes what the key holds (0 when the
\* key is absent), and the key gets next plus the bandwidth.
updateLease(seq) ==
    Sequence(seq.stored, seq.stored + defaultSequenceBandwidth,
             seq.stored + defaultSequenceBandwidth)

\* badger.Sequence.Next: the lease is renewed when used up.
SequenceNext(seq) ==
    LET s == IF seq.next >= seq.leased THEN updateLease(seq) ELSE seq
    IN  [val |-> s.next, seq |-> [s EXCEPT !.next = @ + 1]]

\* badger.Sequence.Release: the unused part of the lease is given back.
SequenceRelease(seq) ==
    Sequence(seq.next, seq.next, IF seq.stored = seq.leased THEN seq.next ELSE seq.stored)

\* Faulty variant: the 0 a fresh sequence yields first is used as an id.
SkipsNoID(nextID) == FALSE

\* "if nextID == 0": the value is not used and Next is called once more.
SkipsID(nextID) == nextID = 0

\* The three writes AddChatRecords makes for one record.
PutChatRecord(db, record) ==
    LET d1 == [db EXCEPT !.rec = KvSet(@, makeChatRecordKey(record.Id), StoredChatRecord(record))]
        d2 == [d1 EXCEPT !.date = KvSet(@, makeChatDateKey(record.Timestamp, record.Id), record.Id)]
    IN  updateConceptIndex(d2, record.Concepts, record.Id)

\* Faulty variant: the writes go to the database at once, outside the transaction.
TxPutDirect(db, tx, record) == [db |-> PutChatRecord(db, record), tx |-> tx]

\* tx.Set inside WithTx: the writes are kept by the transaction until Commit.
TxPut(db, tx, record) == [db |-> db, tx |-> Append(tx, record)]

\* tx.Commit: the writes of the transaction reach the database together.
RECURSIVE TxCommit(_, _)
TxCommit(db, tx) ==
    IF tx = <<>> THEN db ELSE TxCommit(PutChatRecord(db, Head(tx)), Tail(tx))

\* An AddChatRecords call: where it is, the records still to handle, its
\* transaction, and the ids it has assigned.
AddCall(records) ==
    [pc |-> IF records = <<>> THEN "commit" ELSE "next",
     todo |-> records, tx |-> <<>>, ids |-> <<>>]

AddInputs ==
    {[i \in 1..n |-> ChatRecord(0, IngestTime, <<RefA>>, NoVector)] : n \in 0..MaxIssued}

\* Records the calls in progress have still to give an id to.
RECURSIVE Pending(_)
Pending(cs) ==
    IF cs = {} THEN 0
    ELSE LET c == CHOOSE x \in cs : TRUE
         IN  (IF calls[c].pc \in {"next", "retry"} THEN Len(calls[c].todo) ELSE 0) + Pending(cs \ {c})

AddAt(c, pc) == c \in DOMAIN calls /\ calls[c].pc = pc

\* NewChatRepository: GetSequence takes a first lease.
OpenRepository ==
    /\ phase = "down"
    /\ starts < MaxOpens
    /\ phase' = "up"
    /\ starts' = starts + 1
    /\ LET s == updateLease(idSeq)
       IN  /\ chatSeq' = s.next
           /\ seqLeased' = s.leased
           /\ seqStored' = s.stored
    /\ UNCHANGED <<chat, concepts, checkpoints, lastOp, recov, poolSize, poolClosed, tasks,
                   calls, lastID, startupMax, failed, embOK, conOK, issued, backend>>

\* AddChatRecords is called: its transaction begins.
AddBegin ==
    /\ phase = "up"
    /\ Cardinality(DOMAIN calls) < MaxAdds
    /\ \E records \in AddInputs :
         /\ Len(issued) + Pending(DOMAIN calls) + Len(records) <= MaxIssued
         /\ calls' = KvSet(calls, Cardinality(DOMAIN calls) + 1, AddCall(records))
    /\ UNCHANGED <<storeVars, seqVars, phase, recov, poolSize, poolClosed, tasks, lastID,
                   starts, startupMax, failed, embOK, conOK>>

\* The rest of one round of the loop once the record has its id: the record
\* is written in the transaction, or a write fails and the call returns the
\* error, its transaction discarded.
AssignAndWrite(c, id) ==
    LET record == [Head(calls[c].todo) EXCEPT !.Id = id]
        w == TxPut(chat, calls[c].tx, record)
    IN  /\ issued' = Append(issued, id)
        /\ \E writeOK \in BOOLEAN :
             IF writeOK
             THEN /\ chat' = w.db
                  /\ calls' = [calls EXCEPT ![c].tx = w.tx,
                                            ![c].ids = Append(@, id),
                                            ![c].todo = Tail(@),
                                            ![c].pc = IF Len(calls[c].todo) = 1 THEN "commit" ELSE "next"]
             ELSE /\ chat' = chat
                  /\ calls' = [calls EXCEPT ![c].tx = <<>>,
                                            ![c].ids = Append(@, id),
                                            ![c].pc = "failed"]

\* One round of the loop of AddChatRecords: idSeq.Next.
AddNext(c) ==
    /\ AddAt(c, "next")
    /\ LET r == SequenceNext(idSeq)
       IN  /\ chatSeq' = r.seq.next
           /\ seqLeased' = r.seq.leased
           /\ seqStored' = r.seq.stored
           /\ IF SkipsID(r.val)
              THEN /\ calls' = [calls EXCEPT ![c].pc = "retry"]
                   /\ UNCHANGED <<chat, issued>>
              ELSE AssignAndWrite(c, r.val)
    /\ UNCHANGED <<concepts, checkpoints, lastOp, backend, pipeVarsButCalls>>

\* The second idSeq.Next of a round whose first one returned 0.
AddRetry(c) ==
    /\ AddAt(c, "retry")
    /\ LET r == SequenceNext(idSeq)
       IN  /\ chatSeq' = r.seq.next
           /\ seqLeased' = r.seq.leased
           /\ seqStored' = r.seq.stored
           /\ AssignAndWrite(c, r.val)
    /\ UNCHANGED <<concepts, checkpoints, lastOp, backend, pipeVarsButCalls>>

\* tx.Commit at the end of AddChatRecords, which may fail.
AddCommit(c) ==
    /\ AddAt(c, "commit")
    /\ \E commitOK \in BOOLEAN :
         IF commitOK
         THEN /\ chat' = TxCommit(chat, calls[c].tx)
              /\ calls' = [calls EXCEPT ![c].pc = "done", ![c].tx = <<>>]
         ELSE /\ chat' = chat
              /\ calls' = [calls EXCEPT ![c].pc = "failed", ![c].tx = <<>>]
    /\ UNCHANGED <<chatSeq, concepts, checkpoints, lastOp, seqVars, pipeVarsButCalls>>

\* ChatRepository.Close, no call being in progress: the sequence is released.
CloseRepository ==
    /\ phase = "up"
    /\ \A c \in DOMAIN calls : calls[c].pc \in {"done", "failed"}
    /\ phase' = "down"
    /\ calls' = EmptyMap
    /\ LET s == SequenceRelease(idSeq)
       IN  /\ chatSeq' = s.next
           /\ seqLeased' = s.leased
           /\ seqStored' = s.stored
    /\ UNCHANGED <<chat, concepts, checkpoints, lastOp, recov, poolSize, poolClosed, tasks,
                   lastID, starts, startupMax, failed, embOK, conOK, issued, backend>>

\* The process ends without Close: the transactions in progress are gone and
\* the lease stays taken.
CrashRepository ==
    /\ phase = "up"
    /\ phase' = "down"
    /\ calls' = EmptyMap
    /\ UNCHANGED <<storeVars, seqVars, recov, poolSize, poolClosed, tasks, lastID, starts,
                   startupMax, failed, embOK, conOK>>

NextSeq ==
    \/ OpenRepository
    \/ AddBegin
    \/ \E c \in 1..MaxAdds : AddNext(c)
    \/ \E c \in 1..MaxAdds : AddRetry(c)
    \/ \E c \in 1..MaxAdds : AddCommit(c)
    \/ CloseRepository
    \/ CrashRepository

SpecSeq == InitStore /\ [][NextSeq]_vars

----------------------------------------------------------------------------
(* Claims about the ids and the add transaction.                           *)

Consecutive(ids) == \A i \in 1..(Len(ids) - 1) : ids[i + 1] = ids[i] + 1

\* C11: the ids AddChatRecords has assigned since the database was created,
\* taken in order of issue across concurrent calls, Close, crash and reopen,
\* are strictly increasing and none is zero.
C11_IdsIncreasing ==
    \A i \in 1..Len(issued) :
        /\ issued[i] # 0
        /\ i > 1 => issued[i - 1] < issued[i]

\* The database has been reopened, ids were issued under two leases, and a
\* call running next to another one has ids that are not consecutive.
C11_Witness ==
    /\ starts = 2
    /\ Len(issued) >= 3
    /\ \E i \in 1..Len(issued) : issued[i] >= defaultSequenceBandwidth
    /\ \E c \in DOMAIN calls : ~Consecutive(calls[c].ids)

\* C12: the records of one add call, which is what one Ingest call makes,
\* have consecutive ids, also when another call runs at the same time.
C12_BatchIdsConsecutive ==
    \A c \in DOMAIN calls : Consecutive(calls[c].ids)

\* C15: after an AddChatRecords call has failed at a write or at its commit,
\* no record of its batch is readable by id and neither the date index nor
\* the concept index holds an entry of the batch.
C15_FailedAddLeavesNothing ==
    \A c \in DOMAIN calls :
        calls[c].pc = "failed" =>
            \A id \in Range(calls[c].ids) :
                /\ ~HasChatRecord(chat, makeChatRecordKey(id))
                /\ \A k \in DOMAIN chat.date : k[2] # id
                /\ \A k \in DOMAIN chat.cidx : k[2] # id

\* A call failed at the write of its second record, after the writes of its
\* first, while the other call committed its batch.
C15_Witness ==
    \E c \in DOMAIN calls :
        /\ calls[c].pc = "failed"
        /\ Len(calls[c].ids) = 2
        /\ calls[c].todo # <<>>
        /\ \E d \in DOMAIN calls : calls[d].pc = "done" /\ calls[d].ids # <<>>

----------------------------------------------------------------------------
(* GetOrCreateConcept, step by step, next to other calls of it.            *)

\* Number of GetOrCreateConcept calls.
MaxGets == 2

NoConcept == Concept(0, "", "")

\* A GetOrCreateConcept call: where it is, what it asked for and what it
\* returned.
GetCall(name, conceptType) ==
    [pc |-> "find", name |-> name, type |-> conceptType, ret |-> NoConcept, err |-> FALSE]

GetAt(c, pc) == c \in DOMAIN calls /\ calls[c].pc = pc

\* The store is filled and changed by add, update and delete calls before
\* the GetOrCreateConcept calls start.
ConceptSetup ==
    /\ calls = EmptyMap
    /\ NextConcept

\* GetOrCreateConcept is called.
GetBegin ==
    /\ Cardinality(DOMAIN calls) < MaxGets
    /\ \E nt \in NameTypePairs :
         calls' = KvSet(calls, Cardinality(DOMAIN calls) + 1, GetCall(nt[1], nt[2]))
    /\ UNCHANGED <<storeVars, seqVars, pipeVarsButCalls>>

\* The first FindConceptByNameAndType: the concept found is returned, and
\* ErrNotFound leads on to the creation.
GetFind(c) ==
    /\ GetAt(c, "find")
    /\ calls' = IF FoundByNameAndType(concepts, calls[c].name, calls[c].type)
                THEN [calls EXCEPT ![c].pc = "done",
                                   ![c].ret = FindConceptByNameAndType(concepts, calls[c].name, calls[c].type)]
                ELSE [calls EXCEPT ![c].pc = "add"]
    /\ UNCHANGED <<storeVars, seqVars, pipeVarsButCalls>>

\* AddConcepts of the new concept: committed and returned, or failed.
GetAdd(c) ==
    /\ GetAt(c, "add")
    /\ LET newConcept == Concept(IDFromContent("(" \o calls[c].type \o "," \o calls[c].name \o ")"),
                                 calls[c].name, calls[c].type)
           r == AddConcepts(concepts, <<newConcept>>)
       IN  \E addOK \in BOOLEAN :
             IF addOK
             THEN /\ concepts' = r.concepts
                  /\ calls' = [calls EXCEPT ![c].pc = "done", ![c].ret = r.added[1]]
             ELSE /\ concepts' = concepts
                  /\ calls' = [calls EXCEPT ![c].pc = "refind"]
    /\ UNCHANGED <<seqVars, chat, chatSeq, checkpoints, lastOp, pipeVarsButCalls>>

\* The second FindConceptByNameAndType, after a failed add.
GetRefind(c) ==
    /\ GetAt(c, "refind")
    /\ calls' = IF FoundByNameAndType(concepts, calls[c].name, calls[c].type)
                THEN [calls EXCEPT ![c].pc = "done",
                                   ![c].ret = FindConceptByNameAndType(concepts, calls[c].name, calls[c].type)]
                ELSE [calls EXCEPT ![c].pc = "done", ![c].err = TRUE]
    /\ UNCHANGED <<storeVars, seqVars, pipeVarsButCalls>>

NextGet ==
    \/ ConceptSetup
    \/ GetBegin
    \/ \E c \in 1..MaxGets : GetFind(c)
    \/ \E c \in 1..MaxGets : GetAdd(c)
    \/ \E c \in 1..MaxGets : GetRefind(c)

SpecGet == InitStore /\ [][NextGet]_vars

Returned(c) == c \in DOMAIN calls /\ calls[c].pc = "done" /\ ~calls[c].err

\* C13: a GetOrCreateConcept call that returns a concept returns one whose
\* name and type are the ones it was called with, whatever the store held.
C13_ReturnsRequestedTuple ==
    \A c \in DOMAIN calls :
        Returned(c) => calls[c].ret.Name = calls[c].name /\ calls[c].ret.Type = calls[c].type

ConceptsOf(name, conceptType) ==
    {id \in LiveConcepts : concepts.rec[id].Name = name /\ concepts.rec[id].Type = conceptType}

\* C14: two GetOrCreateConcept calls with the same name and type, one after
\* the other or at the same time, return the same id, and the store then
\* holds exactly one concept with that name and type.
C14_SameTupleSameConcept ==
    \A c, d \in DOMAIN calls :
        (/\ c # d
         /\ Returned(c) /\ Returned(d)
         /\ calls[c].name = calls[d].name /\ calls[c].type = calls[d].type)
        => /\ calls[c].ret.Id = calls[d].ret.Id
           /\ Cardinality(ConceptsOf(calls[c].name, calls[c].type)) = 1

----------------------------------------------------------------------------
(* WithTransaction around repository calls.                                *)

\* Number of WithTransaction calls.
MaxTx == 2

\* A WithTransaction call: where it is and what the store held when it began.
TxCall(db) == [pc |-> "fn", before |-> db]

InFn == \E c \in DOMAIN calls : calls[c].pc = "fn"

\* A repository call that writes: AddChatRecords or DeleteChatRecords of one
\* record, committed, or DeleteChatRecords failing with ErrNotFound.
RepositoryWrite ==
    \/ \E records \in Batches1(Contents2) :
          /\ SeqNextID(chatSeq) <= MaxRecords
          /\ LET r == AddChatRecords(chat, chatSeq, records)
             IN  /\ chat' = r.chat
                 /\ chatSeq' = r.seq
          /\ lastOp' = Op("add", TRUE, FALSE, FALSE)
          /\ UNCHANGED <<seqVars, concepts, checkpoints, pipeVars>>
    \/ \E ids \in Batches1(CallerIds) :
          /\ LET r == DeleteChatRecords(chat, ids)
             IN  /\ chat' = r.chat
                 /\ lastOp' = OpOn("delete", r.ok, FALSE, FALSE, ids)
          /\ UNCHANGED <<seqVars, chatSeq, concepts, checkpoints, pipeVars>>

\* A repository call outside WithTransaction.
DirectWrite ==
    /\ ~InFn
    /\ RepositoryWrite

\* WithTransaction is called: WithTx opens a transaction and fn starts. fn
\* gets the caller's ctx, which does not hold the transaction.
TxBegin ==
    /\ ~InFn
    /\ Cardinality(DOMAIN calls) < MaxTx
    /\ calls' = KvSet(calls, Cardinality(DOMAIN calls) + 1, TxCall(chat))
    /\ UNCHANGED <<storeVars, seqVars, pipeVarsButCalls>>

\* fn calls a repository method, which opens and commits its own transaction.
FnWrite ==
    /\ InFn
    /\ RepositoryWrite

\* fn returns: on nil the transaction WithTx opened, which holds no write, is
\* committed; on an error it is discarded.
FnReturn(c) ==
    /\ c \in DOMAIN calls
    /\ calls[c].pc = "fn"
    /\ \E fnOK \in BOOLEAN :
         calls' = [calls EXCEPT ![c].pc = IF fnOK THEN "committed" ELSE "failed"]
    /\ UNCHANGED <<storeVars, seqVars, pipeVarsButCalls>>

NextTx ==
    \/ DirectWrite
    \/ TxBegin
    \/ FnWrite
    \/ \E c \in 1..MaxTx : FnReturn(c)

SpecTx == InitStore /\ [][NextTx]_vars

\* C17: when fn returns an error, WithTransaction leaves the store as it was
\* when it was called, none of the writes fn made being visible; when fn
\* returns nil, all the writes fn made are in the store.
C17_ErrorRollsBack ==
    [][\A c \in DOMAIN calls :
          /\ (calls[c].pc = "fn" /\ calls'[c].pc = "failed") => chat' = calls[c].before
          /\ (calls[c].pc = "fn" /\ calls'[c].pc = "committed") => chat' = chat]_vars

----------------------------------------------------------------------------
(* Claims about the enrichment tasks and the startup recovery.             *)

\* The step in which the process call of a task returns an error: the
\* embedding task ends at its read or at its update, the concept task ends
\* with errors collected.
EmbeddingProcessFails(c) ==
    /\ At(EmbeddingTask(c), "read") \/ At(EmbeddingTask(c), "update")
    /\ EmbeddingTask(c) \notin DOMAIN tasks'
    /\ phase' = phase

ConceptProcessFails(c) ==
    /\ At(ConceptTask(c), "update")
    /\ ConceptTask(c) \notin DOMAIN tasks'
    /\ phase' = phase
    /\ tasks[ConceptTask(c)].val = 1 \/ failed'[ProcessorTypeConcept] # failed[ProcessorTypeConcept]

\* C18: what Ingest returned is settled by its add and no step of a task
\* changes it, and a step in which process or checkpoint fails leaves every
\* stored record as it was.
C18_TaskFailureStaysInside ==
    [][/\ \A c \in DOMAIN calls \cap DOMAIN calls' : calls'[c].err = calls[c].err
       /\ \A c \in DOMAIN calls :
            (EmbeddingProcessFails(c) \/ ConceptProcessFails(c)) => chat'.rec = chat.rec]_vars

\* The step in which the process call of task t returns: the task leaves the
\* statements of process and is at checkpoint or has ended.
ProcessReturns(t) ==
    /\ t \in DOMAIN tasks
    /\ tasks[t].pc \in {"read", "update", "compare", "store"}
    /\ phase' = phase
    /\ t \notin DOMAIN tasks' \/ tasks'[t].pc = "checkpoint"

\* The call returned an error: records of the task are left to reprocess.
ReturnedError(t) == Range(tasks[t].ids) \cap failed'[t[2]] # {}

\* C19: in the step in which the process call of an enrichment task returns,
\* the task goes on to checkpoint if and only if process returned no error.
C19_CheckpointIffProcessOK ==
    [][\A t \in DOMAIN tasks :
          ProcessReturns(t) =>
              ((t \in DOMAIN tasks' /\ tasks'[t].pc = "checkpoint") <=> ~ReturnedError(t))]_vars

\* A concept task whose process succeeded is at checkpoint, and the embedding
\* task of the same records ended without one after its process failed.
C19_Witness ==
    \E c \in DOMAIN calls :
        /\ At(ConceptTask(c), "checkpoint")
        /\ calls[c].accE
        /\ EmbeddingTask(c) \notin DOMAIN tasks
        /\ Range(calls[c].ids) \subseteq failed[ProcessorTypeEmbedding]

\* C20: once process has failed for a chunk during startup recovery, no chunk
\* of either processor is left to process, NewPipeline has returned the error
\* and no pipeline, and both pools are released.
C20_FailedRecoveryAborts ==
    recov.err =>
        /\ recov.embIDs = <<>> /\ recov.conIDs = <<>>
        /\ phase = "down"
        /\ poolClosed = AllClosed

\* Startup recovery found records, the embedding chunk failed and the concept
\* chunk of the same records was not processed.
C20_Witness ==
    /\ recov.err
    /\ DOMAIN chat.rec # {}
    /\ \A id \in DOMAIN chat.rec : id \notin embOK /\ id \notin DOMAIN conOK
    /\ lastID = [p \in Procs |-> 0]

----------------------------------------------------------------------------
(* Startup recovery over a store of many records.                          *)

\* Largest id of a record in the store recovery starts from.
MaxRecoverRecords == 12

\* A store holding unprocessed records under the given ids.
ChatWith(ids) ==
    [rec |-> [id \in ids |-> ChatRecord(id, IngestTime, <<>>, NoVector)],
     date |-> [k \in {makeChatDateKey(IngestTime, id) : id \in ids} |-> k[2]],
     cidx |-> EmptyMap]

\* The ids 1..n, all there or one of them deleted.
RecoverStores == {ChatWith((1..n) \ {h}) : n \in {0, 1, MaxRecoverRecords - 1, MaxRecoverRecords},
                                           h \in {0, 1, MaxRecoverRecords}}

\* Last ids a checkpoint may hold: none processed, some, all, and the id of
\* a record deleted since.
CheckpointIds == {0, 1, 2, MaxRecoverRecords - 1, MaxRecoverRecords}

\* What the checkpoint store holds: for each processor no checkpoint or one.
CheckpointStores ==
    {[p \in ps |-> Checkpoint(p, f[p])] : ps \in SUBSET Procs, f \in [Procs -> CheckpointIds]}

\* What recovery has done since NewPipeline was called: the checkpoints it
\* loaded and the chunks it gave to each processor.
RecoveryLog(cps) == [start |-> cps, given |-> [p \in Procs |-> <<>>]]

InitRecover ==
    /\ InitPipe
    /\ InitSeq
    /\ chat \in RecoverStores
    /\ chatSeq = MaxRecoverRecords + 1
    /\ concepts = EmptyConcepts
    /\ checkpoints \in CheckpointStores
    /\ lastOp = NoOp

\* NewPipeline up to the point where recover has filtered the ids.
RecoverLoad ==
    /\ phase = "down"
    /\ starts < MaxStarts
    /\ poolClosed' = [p \in Procs |-> FALSE]
    /\ lastID' = [p \in Procs |-> 0]
    /\ starts' = starts + 1
    /\ startupMax' = Max(DOMAIN chat.rec)
    /\ recov' = recoverPending(chat, checkpoints)
    /\ calls' = RecoveryLog(checkpoints)
    /\ phase' = "recovering"
    /\ UNCHANGED <<seqVars, storeVars, poolSize, tasks, failed, embOK, conOK>>

\* One round of processWithProgress for the embedding processor: the chunk
\* is given to process, which fails or sets lastID, and then checkpoint
\* saves lastID or fails and is logged.
RecoverChunkEmbedding ==
    /\ phase = "recovering"
    /\ recov.embIDs # <<>>
    /\ LET n == Min2(progressInterval, Len(recov.embIDs))
           chunk == SubSeq(recov.embIDs, 1, n)
           rest == [recov EXCEPT !.embIDs = SubSeq(@, n + 1, Len(@))]
       IN  /\ calls' = [calls EXCEPT !.given[ProcessorTypeEmbedding] = Append(@, chunk)]
           /\ \E processOK \in BOOLEAN, saveOK \in BOOLEAN :
                IF processOK
                THEN /\ lastID' = [lastID EXCEPT ![ProcessorTypeEmbedding] = Max({@, chunk[n]})]
                     /\ checkpoints' = IF saveOK
                                       THEN SaveCheckpoint(checkpoints,
                                               Checkpoint(ProcessorTypeEmbedding,
                                                          Max({lastID[ProcessorTypeEmbedding], chunk[n]})))
                                       ELSE checkpoints
                     /\ recov' = rest
                     /\ UNCHANGED <<phase, poolClosed>>
                ELSE /\ LET a == AfterFailedChunk(rest)
                        IN  /\ phase' = a.phase
                            /\ poolClosed' = a.poolClosed
                            /\ recov' = a.recov
                     /\ UNCHANGED <<lastID, checkpoints>>
    /\ UNCHANGED <<seqVars, chat, chatSeq, concepts, lastOp, poolSize, tasks, starts, startupMax,
                   failed, embOK, conOK>>

\* One round of processWithProgress for the concept processor, whose
\* checkpoint saves nothing.
RecoverChunkConcept ==
    /\ phase = "recovering"
    /\ recov.embIDs = <<>>
    /\ recov.conIDs # <<>>
    /\ LET n == Min2(progressInterval, Len(recov.conIDs))
           chunk == SubSeq(recov.conIDs, 1, n)
           rest == [recov EXCEPT !.conIDs = SubSeq(@, n + 1, Len(@))]
       IN  /\ calls' = [calls EXCEPT !.given[ProcessorTypeConcept] = Append(@, chunk)]
           /\ \E processOK \in BOOLEAN :
                IF processOK
                THEN /\ lastID' = [lastID EXCEPT ![ProcessorTypeConcept] = chunk[n]]
                     /\ recov' = rest
                     /\ UNCHANGED <<phase, poolClosed>>
                ELSE /\ LET a == AfterFailedChunk(rest)
                        IN  /\ phase' = a.phase
                            /\ poolClosed' = a.poolClosed
                            /\ recov' = a.recov
                     /\ UNCHANGED lastID
    /\ UNCHANGED <<seqVars, storeVars, poolSize, tasks, starts, startupMax, failed, embOK, conOK>>

NextRecover ==
    \/ RecoverLoad
    \/ RecoverChunkEmbedding
    \/ RecoverChunkConcept
    \/ NewPipelineReturn

SpecRecover == InitRecover /\ [][NextRecover]_vars

RECURSIVE Flat(_)
Flat(chunks) == IF chunks = <<>> THEN <<>> ELSE Head(chunks) \o Flat(Tail(chunks))

IsPrefix(s, t) == Len(s) <= Len(t) /\ s = SubSeq(t, 1, Len(s))

\* The ids of the existing records above the checkpoint the processor had
\* when recovery started, in ascending order.
ExpectedIds(p) ==
    Sort(SetToSeq({id \in DOMAIN chat.rec : id > CheckpointID(calls.start, p)}))

----------------------------------------------------------------------------
(* conceptProcessor.process and embeddingProcessor.process, called one     *)
(* batch after the other.                                                  *)

\* Records in the store the processors work on.
MaxProcRecords == 2
\* process calls made one after the other.
MaxProcCalls == 2

\* What the extractor may return for one record: an error, no concept, or
\* one concept out of two whose tuple keys are the same.
ProcExtractOutcomes ==
    ExtractOutcomes \cup {[ok |-> TRUE, found |-> <<ExtractedConcept("b", "ta", 7)>>]}

\* The batches a caller may pass: ids of records of the store, ascending.
ProcBatches == {Sort(SetToSeq(S)) : S \in (SUBSET DOMAIN chat.rec) \ {{}}}

\* The indexes "record %d classification failed" names in the joined error.
classificationErrors(outs) == {i - 1 : i \in {k \in 1..Len(outs) : ~outs[k].ok}}

\* A finished process call: its batch, what the extractor and the embedder
\* did, whether UpdateChatRecords committed, whether process returned an
\* error and the record indexes the error names, and the store before.
ProcessCall(ids, outs, embedOK, updated, failedCall, before) ==
    [ids |-> ids, outs |-> outs, embedOK |-> embedOK, updated |-> updated,
     err |-> failedCall \/ ~updated, named |-> classificationErrors(outs), before |-> before]

InitProc ==
    /\ InitPipe
    /\ InitSeq
    /\ chat \in {ChatWith(1..n) : n \in 1..MaxProcRecords}
    /\ chatSeq = MaxProcRecords + 1
    /\ concepts = EmptyConcepts
    /\ checkpoints = EmptyMap
    /\ lastOp = NoOp

\* conceptProcessor.process, from GetChatRecords to its return, called with
\* one of the batches given; the extractor is called once for every record
\* that GetChatRecords returned. A transaction that wrote nothing commits
\* without touching the disk.
ConceptProcessOf(batches) ==
    /\ starts < MaxProcCalls
    /\ starts' = starts + 1
    /\ \E ids \in batches :
         \E outs \in [1..Len(GetChatRecords(chat, Sort(ids))) -> ProcExtractOutcomes],
            embedOK \in BOOLEAN, txOK \in BOOLEAN :
            LET r == ConceptRead(chat, concepts, ids, outs, embedOK)
                u == UpdateChatRecords(chat, r.records)
                updated == (txOK \/ r.records = <<>>) /\ u.ok
            IN  /\ concepts' = r.concepts
                /\ chat' = IF updated THEN u.chat ELSE chat
                /\ lastID' = IF updated /\ Len(r.records) > 0
                             THEN [lastID EXCEPT ![ProcessorTypeConcept] = r.records[Len(r.records)].Id]
                             ELSE lastID
                /\ calls' = ProcessCall(ids, outs, embedOK, updated, r.failedCall, chat)
    /\ UNCHANGED <<seqVars, chatSeq, checkpoints, lastOp, phase, recov, poolSize, poolClosed, tasks,
                   startupMax, failed, embOK, conOK>>

ConceptProcess == ConceptProcessOf(ProcBatches)

SpecConceptProc == InitProc /\ [][ConceptProcess]_vars

\* The references the extracted concepts of a record stand for.
RefsOf(found) ==
    [j \in 1..Len(found) |-> ConceptRef(IDFromContent(Tuple(found[j])), found[j].Importance)]

\* C22: after a process call in which only the extractor failed, for some
\* records, the call has returned an error naming exactly the failed records
\* by their zero-based index, every record whose classification succeeded
\* is stored with the concepts extracted for it, and every failed record is
\* stored with an empty concepts list.
C22_PartialFailure ==
    (calls # EmptyMap /\ calls.embedOK /\ calls.updated /\ calls.named # {}) =>
        /\ calls.err
        /\ calls.named = {i - 1 : i \in {k \in 1..Len(calls.ids) : ~calls.outs[k].ok}}
        /\ \A i \in 1..Len(calls.ids) :
              readChatRecord(chat, makeChatRecordKey(calls.ids[i])).Concepts =
                  IF calls.outs[i].ok THEN RefsOf(calls.outs[i].found) ELSE <<>>

\* What EmbedTexts may return for n texts: an error, or a batch of vectors
\* of the right length, one short or one long.
EmbedResults(n) ==
    {[ok |-> FALSE, vectors |-> <<>>]}
        \cup UNION {{[ok |-> TRUE, vectors |-> [i \in 1..m |-> v]] : v \in {Vec, <<2>>}} :
                       m \in {n - 1, n, n + 1} \cap Nat}

\* The vectors are put on the records with no look at the batch length.
vectorsAssignedUnchecked(records, res) ==
    [ok |-> res.ok,
     records |-> [i \in 1..Len(records) |->
                    IF i <= Len(res.vectors) THEN [records[i] EXCEPT !.Vector = res.vectors[i]]
                    ELSE records[i]]]

\* embeddingProcessor.process from the return of EmbedTexts to the loop over
\* the embeddings: an embedder error and a batch of another length than the
\* records both end the call.
vectorsAssigned(records, res) ==
    IF res.ok /\ Len(res.vectors) = Len(records)
    THEN [ok |-> TRUE, records |-> [i \in 1..Len(records) |-> [records[i] EXCEPT !.Vector = res.vectors[i]]]]
    ELSE [ok |-> FALSE, records |-> records]

\* embeddingProcessor.process, from GetChatRecords to its return, called with
\* one of the batches given. updated[len(updated)-1] is evaluated whenever
\* UpdateChatRecords returned no error: with no record in updated the index
\* is out of range and the goroutine panics.
EmbeddingProcessOf(batches) ==
    /\ starts < MaxProcCalls
    /\ starts' = starts + 1
    /\ \E ids \in batches :
         LET records == GetChatRecords(chat, Sort(ids))
         IN  \E res \in EmbedResults(Len(records)), txOK \in BOOLEAN :
               LET a == vectorsAssigned(records, res)
                   u == UpdateChatRecords(chat, a.records)
                   done == a.ok /\ (txOK \/ a.records = <<>>) /\ u.ok
                   panicked == done /\ Len(a.records) = 0
               IN  /\ chat' = IF done THEN u.chat ELSE chat
                   /\ lastID' = IF done /\ ~panicked
                                THEN [lastID EXCEPT ![ProcessorTypeEmbedding] =
                                         Max({@, a.records[Len(a.records)].Id})]
                                ELSE lastID
                   /\ calls' = [ids |-> ids, records |-> Len(records), res |-> res,
                                err |-> ~done, panicked |-> panicked,
                                before |-> chat, lastBefore |-> lastID[ProcessorTypeEmbedding]]
    /\ UNCHANGED <<seqVars, chatSeq, concepts, checkpoints, lastOp, phase, recov, poolSize, poolClosed,
                   tasks, startupMax, failed, embOK, conOK>>

EmbeddingProcess == EmbeddingProcessOf(ProcBatches)

SpecEmbeddingProc == InitProc /\ [][EmbeddingProcess]_vars

\* C23: after a process call in which the embedder returned an error or a
\* batch whose length is not the number of records, the call has failed, every
\* record has the vector it had before the call, and lastID is what it was.
C23_EmbedderFailureWritesNothing ==
    (calls # EmptyMap /\ (~calls.res.ok \/ Len(calls.res.vectors) # calls.records)) =>
        /\ calls.err
        /\ \A id \in DOMAIN chat.rec : chat.rec[id].Vector = calls.before.rec[id].Vector
        /\ lastID[ProcessorTypeEmbedding] = calls.lastBefore

\* After a call that stored the vector of record 1, a call for both records
\* got one vector for two records.
C23_Witness ==
    /\ calls # EmptyMap
    /\ calls.res.ok
    /\ calls.records = 2
    /\ calls.res.vectors = <<(<<2>>)>>
    /\ calls.lastBefore = 1
    /\ chat.rec[1].Vector = Vec
    /\ chat.rec[2].Vector = NoVector

\* C24: after a process call whose record update committed, every reference
\* in the concepts list of a record of the batch names a concept that is in
\* the concept store, whether or not the embedding of the batch's concepts
\* failed.
C24_StoredRefsExist ==
    (calls # EmptyMap /\ calls.updated) =>
        \A i \in 1..Len(calls.ids) :
            \A j \in 1..Len(chat.rec[calls.ids[i]].Concepts) :
                chat.rec[calls.ids[i]].Concepts[j].ConceptId \in LiveConcepts

----------------------------------------------------------------------------
(* AddChatRecords and the domain rules of a chat record.                   *)

\* AddChatRecords calls on one database.
MaxAddChatRecordsCalls == 2

SpeakerTypeHuman == 1
SpeakerTypeAI == 2

ValidateSpeakerType(speaker) == speaker \in {SpeakerTypeHuman, SpeakerTypeAI}

\* IsValidTimestamp at clock reading now.
IsValidTimestamp(ts, now) == ~(ts > now)

\* ValidateChatRecord at clock reading now: TRUE when it returns nil.
ValidateChatRecord(record, now) ==
    /\ record.Contents # ""
    /\ ValidateSpeakerType(record.Speaker)
    /\ IsValidTimestamp(record.Timestamp, now)

\* An id a caller may set on a record it adds; the sequence never gets there.
CallerSetId == MaxAddChatRecordsCalls * 2 + 5

\* The records a caller passes to AddChatRecords: with and without an id,
\* with and without contents, with a valid and an invalid speaker, with a
\* timestamp before and after the clock.
AddRecords ==
    {[Id |-> id, Timestamp |-> ts, Concepts |-> <<>>, Vector |-> NoVector,
      Speaker |-> sp, Contents |-> text] :
        id \in {0, CallerSetId}, ts \in {1000, 2000}, sp \in {0, SpeakerTypeHuman, SpeakerTypeAI},
        text \in {"", "m"}}

\* ValidateChatRecord when the clock reads between the two timestamps.
ValidAtCall(record) == ValidateChatRecord(record, 1500)

\* One record, or a record that passes every rule followed by any record.
AddBatches ==
    Batches1(AddRecords)
        \cup {<<x, y>> : x \in {r \in AddRecords : r.Id = 0 /\ ValidAtCall(r)}, y \in AddRecords}

\* ChatRepository.AddChatRecords between the two timestamps.
AddChatRecordsCall ==
    /\ starts < MaxAddChatRecordsCalls
    /\ starts' = starts + 1
    /\ \E records \in AddBatches, txOK \in BOOLEAN :
         LET r == AddChatRecords(chat, chatSeq, records)
         IN  /\ chat' = IF txOK THEN r.chat ELSE chat
             /\ chatSeq' = r.seq
             /\ calls' = [input |-> records, added |-> r.added, err |-> ~txOK,
                          before |-> chat, first |-> SeqNextID(chatSeq), seq |-> r.seq]
             /\ lastOp' = Op("add", txOK, FALSE, FALSE)
    /\ UNCHANGED <<seqVars, concepts, checkpoints, phase, recov, poolSize, poolClosed, tasks, lastID,
                   startupMax, failed, embOK, conOK>>

SpecAdd == InitStore /\ [][AddChatRecordsCall]_vars

\* C25: after an AddChatRecords call with a record that has empty contents,
\* an invalid speaker or a timestamp after the clock, the call has returned
\* an error and the store is as it was before the call.
C25_InvalidInputRejected ==
    (calls # EmptyMap /\ \E i \in 1..Len(calls.input) : ~ValidAtCall(calls.input[i])) =>
        (calls.err /\ chat = calls.before)

\* C26: in an AddChatRecords call, a record is given an id drawn from the
\* sequence by this call exactly when it was passed with id 0.
C26_IdAllocatedIffZero ==
    calls # EmptyMap =>
        \A i \in 1..Len(calls.input) :
            (calls.added[i].Id \in calls.first..(calls.seq - 1)) <=> (calls.input[i].Id = 0)

----------------------------------------------------------------------------
(* The queries over the date index.                                        *)

\* Records in the database the queries run on.
MaxQueryRecords == 3
\* Largest limit a caller passes.
MaxLimit == 3

\* The order of two int64 values after uint64(...) as makeChatDateKey writes
\* them big-endian: a negative value becomes one above every other.
Uint64Less(x, y) == IF (x < 0) = (y < 0) THEN x < y ELSE x >= 0

\* The byte order of two date-index keys.
DateKeyLess(a, b) == Uint64Less(a[1], b[1]) \/ (a[1] = b[1] /\ a[2] < b[2])

\* The keys of the date index as a forward iterator meets them.
RECURSIVE IterateForward(_)
IterateForward(keys) ==
    IF keys = {} THEN <<>>
    ELSE LET k == CHOOSE x \in keys : \A y \in keys \ {x} : DateKeyLess(x, y)
         IN  <<k>> \o IterateForward(keys \ {k})

\* The same keys as a reverse iterator meets them.
IterateReverse(keys) ==
    LET f == IterateForward(keys) IN [i \in 1..Len(f) |-> f[Len(f) + 1 - i]]

\* The microseconds of the partial key GetRecentChatRecords seeks to, the
\* last instant of the year 9999, in the scale of the timestamps used here.
RecentSeekMicro == 1000

\* GetChatRecordsByDateRange: Seek to the partial key of start, stop at the
\* first key above the partial key of end; a full key is above the partial
\* key of its own microsecond.
GetChatRecordsByDateRange(db, start, end) ==
    LET RECURSIVE Scan(_)
        Scan(keys) ==
            IF keys = <<>> THEN <<>>
            ELSE IF ~Uint64Less(Head(keys)[1], UnixMicro(IF TimeEqual(start, end) THEN start + NanosPerMicro ELSE end))
                 THEN <<>>
                 ELSE (IF HasChatRecord(db, makeChatRecordKey(db.date[Head(keys)]))
                       THEN <<readChatRecord(db, makeChatRecordKey(db.date[Head(keys)]))>>
                       ELSE <<>>) \o Scan(Tail(keys))
    IN  Scan(SelectSeq(IterateForward(DOMAIN db.date), LAMBDA k : ~Uint64Less(k[1], UnixMicro(start))))

\* GetRecentChatRecords: reverse from the greatest key not above the partial
\* key of the year 9999, until limit records are read.
GetRecentChatRecords(db, limit) ==
    LET RECURSIVE Scan(_, _)
        Scan(keys, count) ==
            IF keys = <<>> \/ ~(count < limit) THEN <<>>
            ELSE IF HasChatRecord(db, makeChatRecordKey(db.date[Head(keys)]))
                 THEN <<readChatRecord(db, makeChatRecordKey(db.date[Head(keys)]))>> \o Scan(Tail(keys), count + 1)
                 ELSE Scan(Tail(keys), count)
    IN  Scan(SelectSeq(IterateReverse(DOMAIN db.date), LAMBDA k : Uint64Less(k[1], RecentSeekMicro)), 0)

\* GetChatRecordsBeforeID: ErrNotFound without the reference record; else
\* reverse from the reference's date key, past the reference, until limit
\* records are read.
GetChatRecordsBeforeID(db, beforeID, limit) ==
    LET RECURSIVE Scan(_, _, _)
        Scan(keys, count, foundRef) ==
            IF keys = <<>> \/ ~(count < limit) THEN <<>>
            ELSE IF db.date[Head(keys)] = beforeID THEN Scan(Tail(keys), count, TRUE)
            ELSE IF ~foundRef THEN Scan(Tail(keys), count, foundRef)
            ELSE IF HasChatRecord(db, makeChatRecordKey(db.date[Head(keys)]))
                 THEN <<readChatRecord(db, makeChatRecordKey(db.date[Head(keys)]))>>
                          \o Scan(Tail(keys), count + 1, foundRef)
                 ELSE Scan(Tail(keys), count, foundRef)
    IN  IF ~HasChatRecord(db, makeChatRecordKey(beforeID)) THEN [ok |-> FALSE, records |-> <<>>]
        ELSE LET startKey == makeChatDateKey(readChatRecord(db, makeChatRecordKey(beforeID)).Timestamp, beforeID)
             IN  [ok |-> TRUE,
                  records |-> Scan(SelectSeq(IterateReverse(DOMAIN db.date),
                                             LAMBDA k : k = startKey \/ DateKeyLess(k, startKey)), 0, FALSE)]

\* Timestamps of the records: before the epoch, the epoch's first
\* microseconds, within one microsecond of another.
RecordTimes == {-1000, 1000, 1500, 2000}
\* Instants a caller asks about.
QueryTimes == {-2000, -1000, 1000, 1500, 2000, 3000}

\* A database after AddChatRecords calls of one record each and then no or
\* one DeleteChatRecords call.
RECURSIVE AddedOneByOne(_)
AddedOneByOne(times) ==
    IF times = <<>> THEN [chat |-> EmptyChat, seq |-> 0]
    ELSE LET d == AddedOneByOne(Tail(times))
         IN  AddChatRecords(d.chat, d.seq, <<ChatRecord(0, Head(times), <<>>, NoVector)>>)

QueryStores ==
    UNION {{DeleteChatRecords(AddedOneByOne(times).chat, del).chat :
                del \in {<<>>} \cup Batches1(1..MaxQueryRecords)} :
           times \in UNION {[1..n -> RecordTimes] : n \in 1..MaxQueryRecords}}

InitQuery ==
    /\ InitPipe
    /\ InitSeq
    /\ chat \in QueryStores
    /\ chatSeq = MaxQueryRecords + 1
    /\ concepts = EmptyConcepts
    /\ checkpoints = EmptyMap
    /\ lastOp = NoOp

QueryUnchanged ==
    UNCHANGED <<seqVars, storeVars, phase, recov, poolSize, poolClosed, tasks, lastID, starts,
                startupMax, failed, embOK, conOK>>

ByDateRange ==
    /\ \E start \in QueryTimes, end \in QueryTimes :
         calls' = [op |-> "by_date_range", start |-> start, end |-> end, limit |-> 0, id |-> 0,
                   ok |-> TRUE, records |-> GetChatRecordsByDateRange(chat, start, end)]
    /\ QueryUnchanged

Recent ==
    /\ \E limit \in 0..MaxLimit :
         calls' = [op |-> "recent", start |-> 0, end |-> 0, limit |-> limit, id |-> 0,
                   ok |-> TRUE, records |-> GetRecentChatRecords(chat, limit)]
    /\ QueryUnchanged

Before ==
    /\ \E id \in 1..MaxQueryRecords, limit \in 0..MaxLimit :
         LET r == GetChatRecordsBeforeID(chat, id, limit)
         IN  calls' = [op |-> "before", start |-> 0, end |-> 0, limit |-> limit, id |-> id,
                       ok |-> r.ok, records |-> r.records]
    /\ QueryUnchanged

SpecQuery == InitQuery /\ [][ByDateRange \/ Recent \/ Before]_vars

Asked(op) == calls # EmptyMap /\ calls.op = op

\* The ids of the records a query returned, in the order returned.
ReturnedIds == [i \in 1..Len(calls.records) |-> calls.records[i].Id]

Ascending(records) ==
    \A i \in 1..Len(records), j \in 1..Len(records) : i < j => records[i].Timestamp <= records[j].Timestamp

NewestFirst(records) ==
    \A i \in 1..Len(records), j \in 1..Len(records) : i < j => records[i].Timestamp >= records[j].Timestamp

NoRepeat(s) == \A i \in 1..Len(s), j \in 1..Len(s) : i # j => s[i] # s[j]

\* C27: by_date_range(start, end) has returned exactly the live records with
\* start <= timestamp < end, or with timestamp = start when start = end, each
\* once and by ascending timestamp.
C27_DateRange ==
    Asked("by_date_range") =>
        /\ Range(ReturnedIds) =
             {id \in LiveIds :
                IF calls.start = calls.end THEN chat.rec[id].Timestamp = calls.start
                ELSE calls.start <= chat.rec[id].Timestamp /\ chat.rec[id].Timestamp < calls.end}
        /\ NoRepeat(ReturnedIds)
        /\ \A i \in 1..Len(calls.records) : calls.records[i] = chat.rec[calls.records[i].Id]
        /\ Ascending(calls.records)

\* The date-index keys before the key of the live record id, nearest first.
PrecedingKeys(id) ==
    IterateReverse({k \in DOMAIN chat.date : DateKeyLess(k, makeChatDateKey(chat.rec[id].Timestamp, id))})

\* No other live record is as early as the live record id.
Earliest(id) ==
    \A o \in LiveIds \ {id} :
        \/ chat.rec[id].Timestamp < chat.rec[o].Timestamp
        \/ (chat.rec[id].Timestamp = chat.rec[o].Timestamp /\ id < o)

\* C28: before(id, limit) has failed when no record has the id; otherwise
\* it has returned the up-to-limit records next before the reference in the
\* order of the date index, nearest first, which is newest first, without
\* the reference itself, and nothing when the reference is the earliest
\* record.
C28_Before ==
    Asked("before") =>
        IF calls.id \notin LiveIds THEN ~calls.ok
        ELSE /\ calls.ok
             /\ ReturnedIds = [i \in 1..Min2(calls.limit, Len(PrecedingKeys(calls.id))) |->
                                  chat.date[PrecedingKeys(calls.id)[i]]]
             /\ calls.id \notin Range(ReturnedIds)
             /\ NewestFirst(calls.records)
             /\ Earliest(calls.id) => calls.records = <<>>

\* C29: recent(limit) has returned min(limit, number of live records) live
\* records, each once, newest first, none of them older than a live record
\* it has not returned; recent(0) has returned nothing.
C29_Recent ==
    Asked("recent") =>
        /\ Len(calls.records) = Min2(calls.limit, Cardinality(LiveIds))
        /\ NoRepeat(ReturnedIds)
        /\ \A i \in 1..Len(calls.records) :
              /\ calls.records[i].Id \in LiveIds
              /\ calls.records[i] = chat.rec[calls.records[i].Id]
        /\ NewestFirst(calls.records)
        /\ \A id \in LiveIds \ Range(ReturnedIds) :
              \A i \in 1..Len(calls.records) : chat.rec[id].Timestamp <= calls.records[i].Timestamp

----------------------------------------------------------------------------
(* Searcher.FindSimilarWithMonitor.  A text is the set of its words after  *)
(* tokenizeAndFilter; a score is a count of thousandths.                   *)

\* Records in the database a search runs on.
MaxSearchRecords == 2
\* Searches on one database.
MaxSearches == 1

\* A match that a query without words has with every document.
containsAllQueryWordsVacuous(document, query) == query \subseteq document

\* containsAllQueryWords
containsAllQueryWords(document, query) == query # {} /\ query \subseteq document

\* A score that gives a record of both sets the weight of a conceptual hit.
relevanceScoreFlat(inSemantic, inConceptual, similarityScore, verbatim) ==
    (IF inConceptual THEN 1200 ELSE similarityScore) + (IF verbatim THEN 300 ELSE 0)

\* The score FindSimilarWithMonitor gives a record: 1.5 x the similarity in
\* both sets, 1.2 in the conceptual set only, the similarity otherwise, and
\* 0.3 more for a verbatim match.
relevanceScore(inSemantic, inConceptual, similarityScore, verbatim) ==
    (IF inSemantic /\ inConceptual THEN (15 * similarityScore) \div 10
     ELSE IF inConceptual THEN 1200
     ELSE similarityScore) + (IF verbatim THEN 300 ELSE 0)

\* The records under the concepts of the query, in the concept store or not.
ConceptualSetUnchecked(chatDB, conceptDB, extracted) ==
    UNION {GetChatRecordsByConcept(chatDB, IDFromContent(Tuple(extracted[i]))) : i \in 1..Len(extracted)}

\* Steps 2 and 3: the records the concept index lists under the concepts of
\* the query that are in the concept store.
ConceptualSet(chatDB, conceptDB, extracted) ==
    UNION {GetChatRecordsByConcept(chatDB, IDFromContent(Tuple(extracted[i]))) :
             i \in {j \in 1..Len(extracted) : HasConcept(conceptDB, makeConceptKey(IDFromContent(Tuple(extracted[j]))))}}

\* Step 4 up to the sort: one result per record found of either set.
ScoredResults(chatDB, semanticScores, conceptualSet, query) ==
    {[Id |-> id,
      Score |-> relevanceScore(id \in DOMAIN semanticScores, id \in conceptualSet,
                               IF id \in DOMAIN semanticScores THEN semanticScores[id] ELSE 0,
                               containsAllQueryWords(readChatRecord(chatDB, makeChatRecordKey(id)).Contents, query))] :
        id \in {x \in (DOMAIN semanticScores) \cup conceptualSet : HasChatRecord(chatDB, makeChatRecordKey(x))}}

\* The orders a range over a Go map may yield the members of a set in.
MapOrders(S) ==
    {t \in [1..Cardinality(S) -> S] : \A i \in DOMAIN t, j \in DOMAIN t : i # j => t[i] # t[j]}

\* The orders sort.Slice may leave the results in, cut to maxHits.
RankedResults(results, maxHits) ==
    {SubSeq(s, 1, Min2(Len(s), maxHits)) :
        s \in {t \in MapOrders(results) :
                 \A i \in DOMAIN t, j \in DOMAIN t : i < j => t[i].Score >= t[j].Score}}

\* The databases searched: records with and without the concept ("ab","t"),
\* with one word and with two, the concept in the concept store or not.
SearchRecords ==
    {[Id |-> 0, Timestamp |-> IngestTime, Concepts |-> cs, Vector |-> Vec, Contents |-> words] :
        cs \in {<<>>, <<ConceptRef(IDFromContent("(t,ab)"), 5)>>}, words \in {{"x"}, {"x", "y"}}}

InitSearch ==
    /\ InitPipe
    /\ InitSeq
    /\ chat \in {AddChatRecords(EmptyChat, 0, records).chat :
                    records \in UNION {[1..n -> SearchRecords] : n \in 1..MaxSearchRecords}}
    /\ chatSeq = MaxSearchRecords + 1
    /\ concepts \in {EmptyConcepts, AddConcepts(EmptyConcepts, <<Concept(0, "ab", "t")>>).concepts}
    /\ checkpoints = EmptyMap
    /\ lastOp = NoOp

\* The calls of a search that may return an error, in the order made.
SearchCalls == <<"EmbedText", "FindSimilar", "ExtractConcepts", "GetChatRecords">>

\* Searcher.FindSimilarWithMonitor.  fails is the first of its calls that
\* returns an error, if any; the similarity search of the repository returns
\* up to maxHits live records with a similarity of 0.6 or more.
FindSimilarWithMonitor ==
    /\ starts < MaxSearches
    /\ starts' = starts + 1
    /\ \E query \in {{}, {"x"}, {"x", "y"}}, maxHits \in 1..MaxSearchRecords,
          fails \in {"none"} \cup Range(SearchCalls),
          extracted \in {<<>>, <<ExtractedConcept("ab", "t", 8)>>},
          semanticScores \in UNION {[S -> {600, 1000}] : S \in SUBSET DOMAIN chat.rec} :
         LET conceptualSet == ConceptualSet(chat, concepts, extracted)
             scored == ScoredResults(chat, semanticScores, conceptualSet, query)
             log == [ok |-> FALSE, query |-> query, maxHits |-> maxHits, fails |-> fails,
                     extracted |-> extracted, semantic |-> EmptyMap, conceptual |-> {},
                     retrieved |-> <<>>, results |-> <<>>]
         IN  /\ Cardinality(DOMAIN semanticScores) <= maxHits
             /\ fails = "GetChatRecords" => (DOMAIN semanticScores) \cup conceptualSet # {}
             /\ IF fails = "none"
                THEN \E retrieved \in MapOrders(scored), results \in RankedResults(scored, maxHits) :
                        calls' = [log EXCEPT !.ok = TRUE, !.semantic = semanticScores,
                                             !.conceptual = conceptualSet,
                                             !.retrieved = retrieved, !.results = results]
                ELSE calls' = log
    /\ UNCHANGED <<seqVars, storeVars, phase, recov, poolSize, poolClosed, tasks, lastID,
                   startupMax, failed, embOK, conOK>>

SpecSearch == InitSearch /\ [][FindSimilarWithMonitor]_vars

\* The semantic score the search saw for a result.
Similarity(r) == calls.semantic[r.Id]

\* Whether a result's contents hold every word of the query.
Verbatim(r) == containsAllQueryWords(chat.rec[r.Id].Contents, calls.query)

\* C30: the score of every result a search returned is base + bonus: base is
\* 1.5 x the semantic score of a record in both the semantic and the
\* conceptual set, 1.2 for a record in the conceptual set only, the semantic
\* score for a record in the semantic set only; bonus is 0.3 for a verbatim
\* match and 0 otherwise.
C30_ScoreIsBasePlusBonus ==
    (calls # EmptyMap /\ calls.ok) =>
        \A i \in 1..Len(calls.results) :
            LET r == calls.results[i]
                bonus == IF Verbatim(r) THEN 300 ELSE 0
            IN  /\ (r.Id \in DOMAIN calls.semantic /\ r.Id \in calls.conceptual)
                      => 2 * (r.Score - bonus) = 3 * Similarity(r)
                /\ (r.Id \notin DOMAIN calls.semantic /\ r.Id \in calls.conceptual)
                      => r.Score - bonus = 1200
                /\ (r.Id \in DOMAIN calls.semantic /\ r.Id \notin calls.conceptual)
                      => r.Score - bonus = Similarity(r)
                /\ r.Id \in (DOMAIN calls.semantic) \cup calls.conceptual

\* A search returned a record of both sets with a verbatim match ahead of a
\* record of the conceptual set only without one.
C30_Witness ==
    /\ calls # EmptyMap
    /\ calls.ok
    /\ Len(calls.results) = 2
    /\ calls.results[1].Id \in DOMAIN calls.semantic
    /\ calls.results[1].Id \in calls.conceptual
    /\ Verbatim(calls.results[1])
    /\ calls.results[1].Score = 1800
    /\ calls.results[2].Id \notin DOMAIN calls.semantic
    /\ ~Verbatim(calls.results[2])
    /\ calls.results[2].Score = 1200

\* The place of a record among the records a search retrieved.
RetrievedAt(r) == CHOOSE i \in 1..Len(calls.retrieved) : calls.retrieved[i] = r

AbsentConceptsRetrieveNothing ==
    calls.conceptual =
        UNION {GetChatRecordsByConcept(chat, c) :
                 c \in {IDFromContent(Tuple(calls.extracted[i])) : i \in 1..Len(calls.extracted)}
                          \cap LiveConcepts}

\* C32 as stated: a search has returned an error exactly when the embedder
\* or the extractor failed, and a concept of the query that is absent from
\* the concept store retrieved no record.
C32_ErrorIffAiFails ==
    calls # EmptyMap =>
        /\ ~calls.ok <=> calls.fails \in {"EmbedText", "ExtractConcepts"}
        /\ calls.ok => AbsentConceptsRetrieveNothing

\* C32 amended: a search has returned an error exactly when the embedder,
\* the similarity search of the repository, the extractor or the retrieval
\* of the candidate records failed, and a concept of the query that is
\* absent from the concept store retrieved no record.
C32_ErrorIffCallFails ==
    calls # EmptyMap =>
        /\ ~calls.ok <=> calls.fails \in Range(SearchCalls)
        /\ calls.ok => AbsentConceptsRetrieveNothing

\* A search for a concept that no longer is in the concept store, while a
\* record is still listed under it, returned that record as a semantic hit
\* only.
C32_Witness ==
    /\ calls # EmptyMap
    /\ calls.ok
    /\ calls.extracted # <<>>
    /\ LiveConcepts = {}
    /\ GetChatRecordsByConcept(chat, IDFromContent(Tuple(calls.extracted[1]))) # {}
    /\ calls.conceptual = {}
    /\ calls.results # <<>>
    /\ calls.results[1].Score = calls.semantic[calls.results[1].Id]

----------------------------------------------------------------------------
(* The verbatim match.  Here a text is the sequence of its fields and a    *)
(* field a sequence of characters.                                         *)

\* Fields in a text.
MaxFields == 2
\* Results scored in one behaviour.
MaxBoosts == 1

\* strings.ToLower on the characters used here.
ToLower(word) ==
    [i \in 1..Len(word) |-> CASE word[i] = "A" -> "a" [] word[i] = "C" -> "c" [] OTHER -> word[i]]

\* The characters of the cutset among those used here.
Cutset == {"!", "-"}

\* strings.Trim(word, cutset)
RECURSIVE Trim(_)
Trim(word) ==
    IF word = <<>> THEN word
    ELSE IF Head(word) \in Cutset THEN Trim(Tail(word))
    ELSE IF word[Len(word)] \in Cutset THEN Trim(SubSeq(word, 1, Len(word) - 1))
    ELSE word

\* The stop words that can be written with the characters used here.
stopWords == {<<"a">>, <<"a", "t">>}

\* tokenizeAndFilter
RECURSIVE tokenizeAndFilter(_)
tokenizeAndFilter(text) ==
    IF text = <<>> THEN <<>>
    ELSE LET cleaned == ToLower(Trim(Head(text)))
         IN  (IF cleaned # <<>> /\ cleaned \notin stopWords THEN <<cleaned>> ELSE <<>>)
                 \o tokenizeAndFilter(Tail(text))

\* The fields texts are made of: stop words in either case, a word in two
\* spellings, a field of punctuation only, a word with punctuation inside.
Fields ==
    {<<"A">>, <<"a", "t">>, <<"c", "a", "t">>, <<"C", "a", "t", "!">>, <<"-">>, <<"c", "-", "t">>}

Texts == UNION {[1..n -> Fields] : n \in 0..MaxFields}

InitVerbatim == InitStore

\* The verbatim boost of FindSimilarWithMonitor for one semantic hit of
\* similarity 0.6.
VerbatimBoost ==
    /\ starts < MaxBoosts
    /\ starts' = starts + 1
    /\ \E document \in Texts, query \in Texts :
         calls' = [document |-> document, query |-> query,
                   score |-> relevanceScore(TRUE, FALSE, 600,
                                 containsAllQueryWords(Range(tokenizeAndFilter(document)),
                                                       Range(tokenizeAndFilter(query))))]
    /\ UNCHANGED <<seqVars, storeVars, phase, recov, poolSize, poolClosed, tasks, lastID,
                   startupMax, failed, embOK, conOK>>

SpecVerbatim == InitVerbatim /\ [][VerbatimBoost]_vars

\* The tokens of a text: its fields lowercased and stripped of punctuation
\* at both ends, those left empty and the stop words dropped.
TokensOf(text) == {ToLower(Trim(text[i])) : i \in 1..Len(text)} \ (stopWords \cup {<<>>})

\* C33 as stated: a result has the bonus of 0.3 exactly when every token of
\* the query is a token of the record's contents.
C33_BonusIffAllTokens ==
    calls # EmptyMap =>
        (calls.score = 900 <=> TokensOf(calls.query) \subseteq TokensOf(calls.document))

\* C33 amended: a result has the bonus of 0.3 exactly when the query has a
\* token and every token of the query is a token of the record's contents.
C33_BonusIffSomeAndAllTokens ==
    calls # EmptyMap =>
        (calls.score = 900 <=>
            (TokensOf(calls.query) # {} /\ TokensOf(calls.query) \subseteq TokensOf(calls.document)))

\* The query "A Cat!" got the bonus on the contents "cat c-t".
C33_Witness ==
    /\ calls # EmptyMap
    /\ calls.query = <<(<<"A">>), (<<"C", "a", "t", "!">>)>>
    /\ calls.document = <<(<<"c", "a", "t">>), (<<"c", "-", "t">>)>>
    /\ calls.score = 900

----------------------------------------------------------------------------
(* Backend.FindSimilar.  Vector components and scores are integers.        *)

\* Records in the database a similarity search runs on.
MaxSimilarRecords == 2
\* Similarity searches on one database.
MaxSimilarCalls == 1

\* dotProduct: over the common length of the two vectors.
dotProduct(a, b) ==
    LET RECURSIVE Sum(_)
        Sum(i) == IF i = 0 THEN 0 ELSE Sum(i - 1) + a[i] * b[i]
    IN  Sum(Min2(Len(a), Len(b)))

\* A threshold that the similarity has to exceed.
passesThresholdStrictly(similarity, minSimilarity) == similarity > minSimilarity

\* The threshold filter of FindSimilar.
passesThreshold(similarity, minSimilarity) == similarity >= minSimilarity

\* The keys under the iterator's prefix "charec": the records, the date
\* index, the concept index and the key of the id sequence.
KeysUnderChatPrefix(db) ==
    {<<"charec:", id>> : id \in DOMAIN db.rec}
        \cup {<<"charecd:", k>> : k \in DOMAIN db.date}
        \cup {<<"charecc:", k>> : k \in DOMAIN db.cidx}
        \cup {<<"charecseq", 0>>}

\* The scan of FindSimilar: the index keys and the sequence key are skipped,
\* then the records without a vector and those below the threshold.
SimilarRecords(db, vector, minSimilarity) ==
    {[Id |-> k[2], Score |-> dotProduct(vector, readChatRecord(db, k[2]).Vector)] :
        k \in {x \in KeysUnderChatPrefix(db) :
                 /\ x[1] \notin {"charecseq", "charecd:", "charecc:"}
                 /\ Len(readChatRecord(db, x[2]).Vector) # 0
                 /\ passesThreshold(dotProduct(vector, readChatRecord(db, x[2]).Vector), minSimilarity)}}

\* The vectors of the records: none, of one and of two components.
RecordVectors == {NoVector, <<1>>, <<1, 0>>, <<0, 1>>, <<1, 1>>}

\* A database after one AddChatRecords call, a record with a concept among
\* them, and then no or one DeleteChatRecords call.
SimilarStores ==
    UNION {{DeleteChatRecords(
                AddChatRecords(EmptyChat, 0,
                    [i \in 1..Len(vs) |-> ChatRecord(0, IngestTime, IF i = 1 THEN <<RefA>> ELSE <<>>, vs[i])]).chat,
                del).chat : del \in {<<>>} \cup Batches1(1..MaxSimilarRecords)} :
           vs \in UNION {[1..n -> RecordVectors] : n \in 1..MaxSimilarRecords}}

InitSimilar ==
    /\ InitPipe
    /\ InitSeq
    /\ chat \in SimilarStores
    /\ chatSeq = MaxSimilarRecords + 1
    /\ concepts = EmptyConcepts
    /\ checkpoints = EmptyMap
    /\ lastOp = NoOp

\* Backend.FindSimilar: the transaction fails, or the records found are
\* sorted by slices.SortFunc and cut to limit.
FindSimilar ==
    /\ starts < MaxSimilarCalls
    /\ starts' = starts + 1
    /\ \E vector \in {<<1, 0>>, <<1, 1>>}, minSimilarity \in 0..2, limit \in 0..MaxSimilarRecords,
          txOK \in BOOLEAN :
         IF txOK
         THEN \E results \in RankedResults(SimilarRecords(chat, vector, minSimilarity), limit) :
                 calls' = [ok |-> TRUE, vector |-> vector, minSimilarity |-> minSimilarity,
                           limit |-> limit, results |-> results]
         ELSE calls' = [ok |-> FALSE, vector |-> vector, minSimilarity |-> minSimilarity,
                        limit |-> limit, results |-> <<>>]
    /\ UNCHANGED <<seqVars, storeVars, phase, recov, poolSize, poolClosed, tasks, lastID,
                   startupMax, failed, embOK, conOK>>

SpecSimilar == InitSimilar /\ [][FindSimilar]_vars

\* The live records with a vector whose inner product with the vector of
\* the last search is at least its min_similarity.
Qualifying ==
    {id \in LiveIds : /\ chat.rec[id].Vector # <<>>
                      /\ dotProduct(calls.vector, chat.rec[id].Vector) >= calls.minSimilarity}

\* C34: find_similar has returned min(limit, number of qualifying records)
\* results, each a qualifying record with its inner-product score, none
\* twice, by non-increasing score, and no qualifying record left out scores
\* higher than a returned one; with limit 0 it has returned nothing.
C34_FindSimilar ==
    (calls # EmptyMap /\ calls.ok) =>
        /\ Len(calls.results) = Min2(calls.limit, Cardinality(Qualifying))
        /\ \A i \in 1..Len(calls.results) :
              /\ calls.results[i].Id \in Qualifying
              /\ calls.results[i].Score = dotProduct(calls.vector, chat.rec[calls.results[i].Id].Vector)
        /\ NoRepeat([i \in 1..Len(calls.results) |-> calls.results[i].Id])
        /\ \A i \in 1..Len(calls.results), j \in 1..Len(calls.results) :
              i < j => calls.results[i].Score >= calls.results[j].Score
        /\ \A id \in Qualifying \ {calls.results[i].Id : i \in 1..Len(calls.results)} :
              \A i \in 1..Len(calls.results) :
                  dotProduct(calls.vector, chat.rec[id].Vector) <= calls.results[i].Score
        /\ calls.limit = 0 => calls.results = <<>>

\* A search with limit 1 over two qualifying records returned the higher
\* one, which scores above the threshold, and left out the one at the
\* threshold.
C34_Witness ==
    /\ calls # EmptyMap
    /\ calls.ok
    /\ calls.limit = 1
    /\ Cardinality(Qualifying) = 2
    /\ Len(calls.results) = 1
    /\ calls.results[1].Score = 2
    /\ calls.minSimilarity = 1
    /\ \E id \in Qualifying : dotProduct(calls.vector, chat.rec[id].Vector) = 1

----------------------------------------------------------------------------
(* Backend.Close and the compaction worker of StartGC.                      *)
(*                                                                         *)
(* The worker is a goroutine that waits in a select on ctx.Done and on a   *)
(* five-minute ticker; on a tick it calls RunValueLogGC until a call       *)
(* returns an error, which is what badger does once no file is worth       *)
(* rewriting, and goes back to the select. Go's select picks at random     *)
(* among the cases that are ready. Close cancels the context, waits on the *)
(* WaitGroup and closes the database.                                      *)

\* How many times Close is called, ticks of the ticker, value-log files that
\* are garbage at any one time, and writes that turn a file into garbage.
MaxCloses == 2
MaxTicks == 2
MaxGarbage == 2
MaxWrites == 1

\* OpenBackend: context.WithCancel, and StartGC unless the database is in
\* memory. wg.Add(1) runs before the goroutine starts.
OpenBackend(inMemory, garbage) ==
    [NoBackend EXCEPT !.worker = IF inMemory THEN "none" ELSE "select",
                      !.wg = IF inMemory THEN 0 ELSE 1,
                      !.garbage = garbage]

InitClose ==
    /\ InitDB /\ InitPipe
    /\ seqStored = 0
    /\ seqLeased = 0
    /\ issued = <<>>
    /\ backend \in {OpenBackend(inMemory, garbage) :
                      inMemory \in BOOLEAN, garbage \in 0..MaxGarbage}

BackendUnchanged == UNCHANGED <<storeVars, pipeVars, seqStored, seqLeased, issued>>

WorkerRuns == backend.worker \in {"select", "gc"}

CloseReturned(c) == c <= Len(backend.close) /\ backend.close[c] = "returned"

\* The application writes while the database is open: a value-log file
\* becomes worth rewriting.
WriteGarbage ==
    /\ ~backend.closed
    /\ backend.writes < MaxWrites
    /\ backend.garbage < MaxGarbage
    /\ backend' = [backend EXCEPT !.garbage = @ + 1, !.writes = @ + 1]
    /\ BackendUnchanged

\* The ticker fires: its channel holds one tick. The deferred ticker.Stop
\* ends it when the worker returns.
Tick ==
    /\ WorkerRuns
    /\ ~backend.tick
    /\ backend.ticks < MaxTicks
    /\ backend' = [backend EXCEPT !.tick = TRUE, !.ticks = @ + 1]
    /\ BackendUnchanged

\* select, case <-ticker.C: a compaction cycle begins.
SelectTick ==
    /\ backend.worker = "select"
    /\ backend.tick
    /\ backend' = [backend EXCEPT !.worker = "gc", !.tick = FALSE]
    /\ BackendUnchanged

\* select, case <-b.ctx.Done(): the worker returns, the deferred wg.Done runs.
SelectDone ==
    /\ backend.worker = "select"
    /\ backend.cancelled
    /\ backend' = [backend EXCEPT !.worker = "exited", !.wg = 0]
    /\ BackendUnchanged

\* One call of RunValueLogGC(0.5) in the loop of a cycle: a file is rewritten
\* and the loop goes on, or the call returns an error (nothing to rewrite, or
\* the database is closed) and the loop breaks.
RunValueLogGC ==
    /\ backend.worker = "gc"
    /\ LET late == \E c \in 1..Len(backend.close) : CloseReturned(c)
           counted == [backend EXCEPT !.gcCalls = IF @ < MaxGarbage + MaxWrites + MaxTicks
                                                   THEN @ + 1 ELSE @,
                                      !.lateCalls = IF late THEN 1 ELSE @]
       IN  IF backend.garbage > 0 /\ ~backend.closed
           THEN backend' = [counted EXCEPT !.garbage = @ - 1]
           ELSE backend' = [counted EXCEPT !.worker = "select"]
    /\ BackendUnchanged

\* Close is called: b.cancelFunc().
CloseCancel ==
    /\ Len(backend.close) < MaxCloses
    /\ backend' = [backend EXCEPT !.cancelled = TRUE, !.close = Append(@, "wait")]
    /\ BackendUnchanged

\* b.wg.Wait() returns at once, whatever the counter is.
wgWaitSkipped(b) == TRUE

\* b.wg.Wait() returns when the counter is zero.
wgWait(b) == b.wg = 0

\* Close, b.wg.Wait() has returned.
CloseWait(c) ==
    /\ c <= Len(backend.close)
    /\ backend.close[c] = "wait"
    /\ wgWait(backend)
    /\ backend' = [backend EXCEPT !.close[c] = "db"]
    /\ BackendUnchanged

\* Close, return b.db.Close(): badger closes the database once (closeOnce)
\* and a later call returns without doing anything.
CloseDB(c) ==
    /\ c <= Len(backend.close)
    /\ backend.close[c] = "db"
    /\ backend' = [backend EXCEPT !.close[c] = "returned", !.closed = TRUE]
    /\ BackendUnchanged

NextClose ==
    \/ WriteGarbage
    \/ Tick
    \/ SelectTick
    \/ SelectDone
    \/ RunValueLogGC
    \/ CloseCancel
    \/ \E c \in 1..MaxCloses : CloseWait(c)
    \/ \E c \in 1..MaxCloses : CloseDB(c)

\* The goroutines of the worker and of the callers of Close keep running
\* (weak fairness), and a select that is ready to take ctx.Done again and
\* again takes it at some point, as a random choice does (strong fairness).
SpecClose ==
    /\ InitClose
    /\ [][NextClose]_vars
    /\ WF_vars(RunValueLogGC)
    /\ SF_vars(SelectDone)
    /\ \A c \in 1..MaxCloses : WF_vars(CloseWait(c)) /\ WF_vars(CloseDB(c))

\* Once a Close has returned the worker is gone and has called RunValueLogGC
\* for the last time.
NoCycleAfterClose ==
    (\E c \in 1..MaxCloses : CloseReturned(c))
        => /\ ~WorkerRuns
           /\ backend.lateCalls = 0
           /\ backend.cancelled
           /\ backend.closed

\* A step of a Close that is not the first to return leaves the worker, the
\* context and the database as they are.
LaterCloseChangesNothing ==
    (\E c \in 1..MaxCloses : CloseReturned(c))
        => /\ backend'.worker = backend.worker
           /\ backend'.cancelled = backend.cancelled
           /\ backend'.closed = backend.closed
           /\ backend'.garbage = backend.garbage

\* C35: every call of Close returns; once one has returned the compaction
\* worker has exited and no call of RunValueLogGC is made any more; and a
\* further call of Close returns too and changes nothing.
C35_CloseStopsWorker ==
    /\ []NoCycleAfterClose
    /\ [][LaterCloseChangesNothing]_vars
    /\ \A c \in 1..MaxCloses : (c <= Len(backend.close)) ~> CloseReturned(c)

\* Close was called twice and both calls have returned, the worker having run
\* a compaction cycle that rewrote a file before it exited.
C35_Witness ==
    /\ \A c \in 1..MaxCloses : CloseReturned(c)
    /\ backend.worker = "exited"
    /\ backend.gcCalls >= 2
    /\ backend.garbage = 0

----------------------------------------------------------------------------
(* RetryWithBackoff of the reembed package.                                 *)
(*                                                                         *)
(* calls holds the one activation that is followed: its arguments, its     *)
(* locals attempt and lastErr, where it stands, the state of its context,  *)
(* and as history what every call of the operation returned and how many   *)
(* calls had been made when the context was cancelled. The select with a   *)
(* default at the head of the loop and the call of the operation that      *)
(* follows it are one step: the attempt starts where the context is read.  *)

\* Largest maxAttempts the activation is called with.
MaxAttempts == 3

NoError == <<"nil">>
ErrInvalidMaxAttempts == <<"ErrInvalidMaxAttempts">>

\* What ctx.Err returns once the context is done.
ContextErrors == {<<"context.Canceled">>, <<"context.DeadlineExceeded">>}

\* The error the operation returns when its attempt-th call fails.
OperationError(attempt) == <<"operation", attempt>>

RetryUnchanged == UNCHANGED <<seqVars, storeVars, pipeVarsButCalls>>

RetryAt(pc) == calls # EmptyMap /\ calls.pc = pc

\* return: the activation ends with the error given.
RetryReturn(call, err) == [call EXCEPT !.pc = "returned", !.result = err]

\* RetryWithBackoff is called, with a context that may be done already.
RetryWithBackoffCall ==
    /\ calls = EmptyMap
    /\ \E maxAttempts \in -1..MaxAttempts, ctxErr \in ContextErrors \cup {NoError} :
         LET call == [pc |-> "loop", maxAttempts |-> maxAttempts, attempt |-> 1,
                      lastErr |-> NoError, ctxErr |-> ctxErr, result |-> NoError,
                      returns |-> <<>>, doneAt |-> IF ctxErr = NoError THEN -1 ELSE 0,
                      doneIn |-> IF ctxErr = NoError THEN "none" ELSE "before"]
         IN  calls' = IF maxAttempts <= 0
                      THEN RetryReturn(call, ErrInvalidMaxAttempts)
                      ELSE call
    /\ RetryUnchanged

\* The context is cancelled or its deadline passes while the activation runs.
ContextDone ==
    /\ calls # EmptyMap
    /\ calls.pc # "returned"
    /\ calls.ctxErr = NoError
    /\ \E ctxErr \in ContextErrors :
         calls' = [calls EXCEPT !.ctxErr = ctxErr,
                                !.doneAt = Len(calls.returns),
                                !.doneIn = calls.pc]
    /\ RetryUnchanged

\* The head of the loop does not look at the context.
ctxDoneUnread(call) == FALSE

\* case <-ctx.Done() of the select at the head of the loop is ready.
ctxDone(call) == call.ctxErr # NoError

\* The head of a round of the loop: return ctx.Err if the context is done,
\* call the operation otherwise.
RetryAttempt ==
    /\ RetryAt("loop")
    /\ calls' = IF ctxDone(calls)
                THEN RetryReturn(calls, calls.ctxErr)
                ELSE [calls EXCEPT !.pc = "operation"]
    /\ RetryUnchanged

\* lastErr keeps the error of the first attempt that failed.
lastErrKeptFirst(lastErr, err) == IF lastErr = NoError THEN err ELSE lastErr

\* lastErr = operation()
lastErrAssigned(lastErr, err) == err

\* The operation returns: nil ends the activation, an error at the last
\* attempt leaves the loop, an error before it starts the backoff timer.
OperationReturns ==
    /\ RetryAt("operation")
    /\ \E err \in {NoError, OperationError(calls.attempt)} :
         LET call == [calls EXCEPT !.lastErr = lastErrAssigned(@, err),
                                   !.returns = Append(@, err)]
         IN  calls' = IF call.lastErr = NoError THEN RetryReturn(call, NoError)
                      ELSE IF call.attempt = call.maxAttempts
                           THEN RetryReturn(call, call.lastErr)
                           ELSE [call EXCEPT !.pc = "backoff"]
    /\ RetryUnchanged

\* The select of the backoff wait takes ctx.Done.
BackoffDone ==
    /\ RetryAt("backoff")
    /\ calls.ctxErr # NoError
    /\ calls' = RetryReturn(calls, calls.ctxErr)
    /\ RetryUnchanged

\* The select of the backoff wait takes timer.C, which it may do with the
\* context done as well: the next round begins.
BackoffTimer ==
    /\ RetryAt("backoff")
    /\ calls' = [calls EXCEPT !.pc = "loop", !.attempt = @ + 1]
    /\ RetryUnchanged

NextRetry ==
    \/ RetryWithBackoffCall
    \/ ContextDone
    \/ RetryAttempt
    \/ OperationReturns
    \/ BackoffDone
    \/ BackoffTimer

SpecRetry == InitStore /\ [][NextRetry]_vars

Failures(returns) == {i \in 1..Len(returns) : returns[i] # NoError}

\* C37: the operation is called at most maxAttempts times and never again
\* after it has succeeded; the activation returns nil exactly after a success,
\* the error of the last attempt after maxAttempts failures, and
\* ErrInvalidMaxAttempts without calling the operation if maxAttempts <= 0.
C37_AttemptsBounded ==
    calls # EmptyMap =>
        LET n == Len(calls.returns)
        IN  /\ n <= IF calls.maxAttempts > 0 THEN calls.maxAttempts ELSE 0
            /\ \A i \in 1..n : calls.returns[i] = NoError
                                  => i = n /\ calls.pc = "returned" /\ calls.result = NoError
            /\ Cardinality(Failures(calls.returns)) = calls.maxAttempts /\ calls.maxAttempts > 0
                  => calls.pc = "returned" /\ calls.result = calls.returns[n]
            /\ calls.maxAttempts <= 0
                  => calls.pc = "returned" /\ calls.result = ErrInvalidMaxAttempts /\ n = 0
            /\ calls.pc = "returned" /\ calls.result = NoError
                  => n > 0 /\ calls.returns[n] = NoError

\* All of three allowed attempts failed and the error of the third has been
\* returned.
C37_Witness ==
    /\ RetryAt("returned")
    /\ calls.maxAttempts = 3
    /\ Cardinality(Failures(calls.returns)) = 3
    /\ calls.result = OperationError(3)

\* The context of the activation is done.
Done == calls # EmptyMap /\ calls.ctxErr # NoError

\* C38 as stated: once the context is done no attempt starts and the
\* activation returns the context's error.
C38_ContextErrorReturned ==
    Done => /\ Len(calls.returns) <= calls.doneAt + (IF calls.doneIn = "operation" THEN 1 ELSE 0)
            /\ calls.pc = "returned" => calls.result = calls.ctxErr

\* The context became done while an attempt was running, and that attempt
\* succeeded or was the last one allowed.
DecidedByAttempt ==
    /\ calls.doneIn = "operation"
    /\ Len(calls.returns) = calls.doneAt + 1
    /\ \/ calls.returns[Len(calls.returns)] = NoError
       \/ Len(calls.returns) = calls.maxAttempts

\* C38, amended: once the context is done no attempt starts. An activation
\* with maxAttempts > 0 returns the context's error when the context is done
\* before the call, before an attempt or during a backoff wait; when it
\* becomes done during an attempt, that attempt decides as it would have:
\* nil if it succeeds, its error if it was the last allowed, and the context's
\* error otherwise.
C38_ContextErrorUnlessAttemptDecides ==
    Done => /\ Len(calls.returns) <= calls.doneAt + (IF calls.doneIn = "operation" THEN 1 ELSE 0)
            /\ calls.pc = "returned" /\ calls.maxAttempts > 0
                  => IF DecidedByAttempt
                     THEN calls.result = calls.returns[Len(calls.returns)]
                     ELSE calls.result = calls.ctxErr

\* The context was cancelled during the backoff wait after the first failed
\* attempt and the activation has returned context.Canceled after that one
\* attempt.
C38_Witness ==
    /\ RetryAt("returned")
    /\ calls.doneIn = "backoff"
    /\ calls.returns = <<OperationError(1)>>
    /\ calls.result = <<"context.Canceled">>

----------------------------------------------------------------------------
(* The context window of the concept processor.                             *)
(*                                                                         *)
(* A text is kept as the list of its pieces: strings.Join puts the         *)
(* separator between the contents it is given.                             *)

\* Records in the store, and the largest contextTurns.
MaxContextRecords == 13
MaxContextTurns == 1

\* The headroom buildContextWindow adds to the limit of its query.
recentHeadroom == 10

\* strings.Join(parts, sep)
Join(parts, sep) ==
    [i \in 1..(IF parts = <<>> THEN 0 ELSE 2 * Len(parts) - 1) |->
        IF i % 2 = 1 THEN parts[(i + 1) \div 2] ELSE sep]

\* The last n elements of s, all of them if there are fewer: s[len(s)-n:].
LastN(s, n) == IF Len(s) > n THEN SubSeq(s, Len(s) - n + 1, Len(s)) ELSE s

\* buildContextWindow: the contextTurns * 2 + 10 most recent records of the
\* store are fetched, those strictly before the record's timestamp kept,
\* reversed, cut to the last contextTurns * 2 and joined with the record.
buildContextWindow(db, record, contextTurns) ==
    IF contextTurns = 0 THEN <<record.Contents>>
    ELSE LET recentRecords == GetRecentChatRecords(db, contextTurns * 2 + recentHeadroom)
             before == SelectSeq(recentRecords, LAMBDA msg : msg.Timestamp < record.Timestamp)
             chronological == [i \in 1..Len(before) |-> before[Len(before) + 1 - i]]
             contextRecords == LastN(chronological, contextTurns * 2)
         IN  Join([i \in 1..Len(contextRecords) |-> contextRecords[i].Contents]
                     \o <<record.Contents>>, "\n\n")

\* The store after n records were ingested one microsecond apart, record i
\* with the contents <<"m", i>>.
ContextStore(n) ==
    AddChatRecords(EmptyChat, 0,
        [i \in 1..n |-> [Id |-> 0, Timestamp |-> i * NanosPerMicro, Concepts |-> <<>>,
                         Vector |-> NoVector, Contents |-> <<"m", i>>]]).chat

InitContext ==
    /\ InitPipe
    /\ InitSeq
    /\ chat \in {ContextStore(n) : n \in 1..MaxContextRecords}
    /\ chatSeq = MaxContextRecords + 1
    /\ concepts = EmptyConcepts
    /\ checkpoints = EmptyMap
    /\ lastOp = NoOp

\* The concept processor builds the text for one record of the store.
BuildContextWindow ==
    /\ \E id \in LiveIds, contextTurns \in 0..MaxContextTurns :
         calls' = [id |-> id, contextTurns |-> contextTurns,
                   text |-> buildContextWindow(chat, chat.rec[id], contextTurns)]
    /\ QueryUnchanged

SpecContext == InitContext /\ [][BuildContextWindow]_vars

\* The ids of the at most n latest records strictly before the record id,
\* oldest first; the records of a store of ContextStore are in id order.
Preceding(id, n) ==
    LET ids == {i \in LiveIds : chat.rec[i].Timestamp < chat.rec[id].Timestamp}
        kept == {i \in ids : Cardinality({j \in ids : j > i}) < n}
    IN  Sort(SetToSeq(kept))

\* C39: with context_turns = n > 0 the text built for a record is the
\* contents of the 2n latest records strictly before it (all of them if
\* there are fewer), oldest first, and then the record's own, whichever
\* record of the store it is.
C39_ContextIsPrecedingRecords ==
    calls # EmptyMap /\ calls.contextTurns > 0 =>
        LET p == Preceding(calls.id, 2 * calls.contextTurns)
        IN  calls.text = Join([i \in 1..Len(p) |-> chat.rec[p[i]].Contents]
                                  \o <<chat.rec[calls.id].Contents>>, "\n\n")

----------------------------------------------------------------------------
(* The processors called with a batch none of whose records is there.       *)

\* The ids 1..MaxProcRecords, any of them deleted.
InitNoRecords ==
    /\ InitPipe
    /\ InitSeq
    /\ chat \in {ChatWith(S) : S \in SUBSET (1..MaxProcRecords)}
    /\ chatSeq = MaxProcRecords + 1
    /\ concepts = EmptyConcepts
    /\ checkpoints = EmptyMap
    /\ lastOp = NoOp

\* No ids, or ids of records that were deleted or never written, ascending.
AbsentBatches ==
    {Sort(SetToSeq(S)) : S \in SUBSET ((1..(MaxProcRecords + 1)) \ DOMAIN chat.rec)}

EmbeddingProcessAbsent == EmbeddingProcessOf(AbsentBatches)

ConceptProcessAbsent == ConceptProcessOf(AbsentBatches)

SpecNoRecords == InitNoRecords /\ [][EmbeddingProcessAbsent \/ ConceptProcessAbsent]_vars

\* The embedder, given no text, returned no vector and no error.
EmbedderDidNotFail == "res" \in DOMAIN calls => calls.res = [ok |-> TRUE, vectors |-> <<>>]

\* C40: a process call of either processor with no ids, or with ids of
\* records that are not in the store, the embedder not failing, has returned,
\* without an error, and the store, the concept store and both lastID fields
\* are what they were.
C40_NoRecordsNoEffect ==
    (calls # EmptyMap /\ EmbedderDidNotFail) =>
        /\ ~calls.err
        /\ "panicked" \in DOMAIN calls => ~calls.panicked
        /\ chat = calls.before
        /\ concepts = EmptyConcepts
        /\ lastID = [p \in Procs |-> 0]

\* The concept processor alone: its call returns without an error and
\* changes nothing.
ConceptProcessorNoRecords ==
    (calls # EmptyMap /\ "outs" \in DOMAIN calls) =>
        /\ ~calls.err
        /\ chat = calls.before
        /\ concepts = EmptyConcepts
        /\ lastID = [p \in Procs |-> 0]

----------------------------------------------------------------------------
(* Enrichment while the pipeline runs: no embedder or extractor error, no   *)
(* Release, no restart.                                                    *)

\* EmbedTexts returns no error: the embedding task goes on to its update.
EmbeddingProcessReadOK(c) ==
    /\ EmbeddingProcessRead(c)
    /\ EmbeddingTask(c) \in DOMAIN tasks'

\* ExtractConcepts and the embedder of getOrCreateConcepts return no error.
ConceptProcessReadOK(c) ==
    /\ ConceptProcessRead(c)
    /\ tasks'[ConceptTask(c)].val = 0

NextEnrich ==
    \/ NewPipeline
    \/ NewPipelineReturn
    \/ IngestAdd
    \/ \E c \in 1..MaxIngest : IngestSubmitEmbedding(c)
    \/ \E c \in 1..MaxIngest : IngestSubmitConcept(c)
    \/ \E c \in 1..MaxIngest : EmbeddingProcessReadOK(c)
    \/ \E c \in 1..MaxIngest : EmbeddingProcessUpdate(c)
    \/ \E c \in 1..MaxIngest : EmbeddingCompare(c)
    \/ \E c \in 1..MaxIngest : EmbeddingStore(c)
    \/ \E c \in 1..MaxIngest : EmbeddingCheckpoint(c)
    \/ \E c \in 1..MaxIngest : EmbeddingSave(c)
    \/ \E c \in 1..MaxIngest : ConceptProcessReadOK(c)
    \/ \E c \in 1..MaxIngest : ConceptProcessUpdate(c)
    \/ \E c \in 1..MaxIngest : ConceptCheckpoint(c)

\* The callers of Ingest and the workers of the pools keep running: a step
\* that stays possible is taken.
SpecEnrich == Init /\ [][NextEnrich]_vars /\ WF_vars(NextEnrich)

\* The record is stored with a vector and with the concepts the concept
\* processor committed for it.
Enriched(id) ==
    /\ HasChatRecord(chat, makeChatRecordKey(id))
    /\ readChatRecord(chat, makeChatRecordKey(id)).Vector = Vec
    /\ id \in DOMAIN conOK
    /\ readChatRecord(chat, makeChatRecordKey(id)).Concepts = conOK[id]

\* C36: while the embedder and the extractor return no error and the
\* pipeline is neither released nor restarted, every ingested record is at
\* some later point stored with both its vector and its concepts, whatever
\* the interleaving of the enrichment tasks and whichever of their
\* transactions fail on a conflict.
C36_EventuallyEnriched ==
    \A id \in 1..(MaxIngest * MaxBatch) :
        [](HasChatRecord(chat, makeChatRecordKey(id)) => <>Enriched(id))

====
